---- MODULE Spec2Model ----
(***************************************************************************)
(* A model of the opcode VM of executor.py: the VM object (registers,      *)
(* flags, memory, halted), Executor.execute and the handlers of the        *)
(* dispatch table OPCODE_EXECUTORS.                                        *)
(*                                                                         *)
(* Python integers are unbounded, and the handlers mask some results to    *)
(* 32 bits and leave others as they are, so register values are modelled   *)
(* as unbounded integers.  TLC's own integers are 32 bits wide, so an      *)
(* integer is the record [neg, d]: d is the little-endian sequence of its  *)
(* base-256 digits in two's complement, neg says that the digits are       *)
(* sign-extended with 255 rather than 0:                                   *)
(*     value = d[1] + 256*d[2] + ... - (IF neg THEN 256^Len(d) ELSE 0)     *)
(* The top digit never equals the sign-extension digit, so equal integers  *)
(* are equal records.                                                      *)
(***************************************************************************)
EXTENDS Integers, Sequences, FiniteSets, TLC

Max(a, b) == IF a >= b THEN a ELSE b
Min(a, b) == IF a <= b THEN a ELSE b

\* the element of a one-element set; { F(x) : x \in {e} } evaluates e once
\* before F is applied to it
The(S) == CHOOSE x \in S : TRUE

\* d without its trailing digits e
Strip(d, e) ==
  LET Keep(n) == SubSeq(d, 1, n)
  IN  Keep(CHOOSE n \in 0..Len(d) :
             (n = 0 \/ d[n] # e) /\ \A k \in (n + 1)..Len(d) : d[k] = e)

\* the integer with the given sign and (possibly redundant) digits
Norm(neg, d) == [neg |-> neg, d |-> Strip(d, IF neg THEN 255 ELSE 0)]

\* digit i (from 1) of the infinite two's complement expansion
Dig(a, i) == IF i <= Len(a.d) THEN a.d[i] ELSE IF a.neg THEN 255 ELSE 0

RECURSIVE NatDigits(_)
NatDigits(n) == IF n = 0 THEN <<>> ELSE <<n % 256>> \o NatDigits(n \div 256)

\* a + b, or with comp a - b = a + ~b + 1, for integers a and b: x(i) is the
\* sum of the two digits at place i; a carry reaches place i from a lower
\* place that overflows (or from the + 1), through places that add up to 255
AddDigits(a, b, comp) ==
  LET n == Max(Len(a.d), Len(b.d)) + 1
      x(i) == Dig(a, i) + (IF comp THEN 255 - Dig(b, i) ELSE Dig(b, i))
      Carry(i) == \E j \in 0..(i - 1) :
                    /\ IF j = 0 THEN comp ELSE x(j) >= 256
                    /\ \A k \in (j + 1)..(i - 1) : x(k) = 255
      Sum(ds) == Norm(ds[n] >= 128, ds)
  IN  Sum(SubSeq([i \in 1..n |-> (x(i) + IF Carry(i) THEN 1 ELSE 0) % 256], 1, n))

\* a + b and a - b
IntAdd(a, b) == The({AddDigits(x, y, FALSE) : x \in {a}, y \in {b}})
IntSub(a, b) == The({AddDigits(x, y, TRUE) : x \in {a}, y \in {b}})

\* ~a
IntNot(a) == [neg |-> ~a.neg, d |-> SubSeq([i \in 1..Len(a.d) |-> 255 - a.d[i]], 1, Len(a.d))]

\* a small integer literal of the source, n within TLC's range
Py(n) ==
  IF n >= 0 THEN [neg |-> FALSE, d |-> NatDigits(n)]
  ELSE IntSub([neg |-> FALSE, d |-> <<>>], [neg |-> FALSE, d |-> NatDigits(-n)])

\* -a
IntNeg(a) == IntSub(Py(0), a)
IntAbs(a) == IF a.neg THEN IntNeg(a) ELSE a
IntLess(a, b) == IntSub(a, b).neg

RECURSIVE ByteOp(_, _, _, _)
ByteOp(op, x, y, k) ==
  IF k = 0 THEN 0
  ELSE LET bx == x % 2
           by == y % 2
           b  == IF op = "and" THEN bx * by
                 ELSE IF op = "or" THEN bx + by - bx * by
                 ELSE (bx + by) % 2
       IN  b + 2 * ByteOp(op, x \div 2, y \div 2, k - 1)

\* a & b, a | b, a ^ b on the infinite two's complement expansions
IntBitOp(op, a, b) ==
  LET n   == Max(Len(a.d), Len(b.d))
      neg == IF op = "and" THEN a.neg /\ b.neg
             ELSE IF op = "or" THEN a.neg \/ b.neg
             ELSE a.neg # b.neg
  IN  Norm(neg, SubSeq([i \in 1..n |-> ByteOp(op, Dig(a, i), Dig(b, i), 8)], 1, n))

\* a & (256^k - 1): the masks 0xFF, 0xFFFF, 0xFFFFFFFF, 0xFFFFFFFFFFFFFFFF
MaskBytes(a, k) == Norm(FALSE, SubSeq([i \in 1..k |-> Dig(a, i)], 1, k))

\* a << 8k and a >> 8k (Python's >> floors)
ShlBytes(a, k) ==
  IF a = Py(0) THEN a ELSE [neg |-> a.neg, d |-> SubSeq([i \in 1..k |-> 0], 1, k) \o a.d]
ShrBytes(a, k) ==
  IF Len(a.d) <= k THEN Norm(a.neg, <<>>)
  ELSE [neg |-> a.neg, d |-> SubSeq(a.d, k + 1, Len(a.d))]

\* a >> 1
Shr1(a) ==
  LET n == Len(a.d)
  IN  Norm(a.neg, SubSeq([i \in 1..n |-> (a.d[i] \div 2) + 128 * (Dig(a, i + 1) % 2)], 1, n))

\* a >= 0 times the digit k: the low bytes of the digits' products, plus
\* their high bytes one place up
ScaleDigits(a, k) ==
  LET n == Len(a.d)
  IN  IntAdd(Norm(FALSE, SubSeq([i \in 1..n |-> (a.d[i] * k) % 256], 1, n)),
             Norm(FALSE, <<0>> \o SubSeq([i \in 1..n |-> (a.d[i] * k) \div 256], 1, n)))

RECURSIVE MulDigits(_, _)
MulDigits(a, bd) ==
  IF bd = <<>> THEN Py(0)
  ELSE The({IntAdd(ScaleDigits(a, Head(bd)), ShlBytes(rest, 1)) :
              rest \in {MulDigits(a, Tail(bd))}})

\* a * b
IntMul(a, b) ==
  LET Sign(m) == IF a.neg # b.neg THEN IntNeg(m) ELSE m
  IN  Sign(MulDigits(IntAbs(a), IntAbs(b).d))

\* bit i (from 0) of a
Bit(a, i) == (Dig(a, (i \div 8) + 1) \div (2 ^ (i % 8))) % 2

RECURSIVE DigitsVal(_)
DigitsVal(d) == IF d = <<>> THEN 0 ELSE Head(d) + 256 * DigitsVal(Tail(d))
\* a as a TLC integer, for |a| <= 2^24
IntVal(a) == DigitsVal(a.d) - (IF a.neg THEN 256 ^ Len(a.d) ELSE 0)
IsSmall(a) == Len(a.d) <= 3

\* how often b > 0 fits into r (0 <= r < 256*b), and what is left: R and B are
\* r and b without their low k bytes, which bound the digit from both sides
DigitStep(r, b) ==
  LET k == Max(Len(b.d) - 2, 0)
      Fits(q) == ~IntLess(r, ScaleDigits(b, q)) /\ IntLess(r, ScaleDigits(b, q + 1))
      Digit(R, B) == IF k = 0 THEN R \div B
                     ELSE CHOOSE q \in (R \div (B + 1))..Min(255, (R + 1) \div B) : Fits(q)
  IN  The({[q |-> q, r |-> IntSub(r, ScaleDigits(b, q))] :
             q \in {Digit(IntVal(ShrBytes(r, k)), IntVal(ShrBytes(b, k)))}})

\* one digit of the long division: prev.r the running remainder, prev.qd the
\* quotient's digits so far (little-endian)
DivDigit(prev, digit, b) ==
  The({[qd |-> <<s.q>> \o prev.qd, r |-> s.r] :
         s \in {DigitStep(r, b) : r \in {IntAdd(ShlBytes(prev.r, 1), Py(digit))}}})

\* quotient and remainder of a >= 0 by b > 0: the top digits of a that are
\* below b start the remainder, D[i] is the division after i more digits
DivNat(a, b) ==
  LET n == Max(Len(a.d) - Len(b.d) + 1, 0)
      D[i \in 0..n] ==
        IF i = 0 THEN [qd |-> <<>>, r |-> ShrBytes(a, n)]
        ELSE CHOOSE s \in {DivDigit(prev, a.d[n - i + 1], b) : prev \in {D[i - 1]}} : TRUE
  IN  The({[q |-> Norm(FALSE, s.qd), r |-> s.r] : s \in {D[n]}})

\* a // b and a % b of Python (floor division, the remainder has b's sign)
IntFloorDiv(a, b) ==
  LET Floor(n) == IF a.neg = b.neg THEN n.q
                  ELSE IF n.r = Py(0) THEN IntNeg(n.q)
                  ELSE IntSub(IntNeg(n.q), Py(1))
  IN  Floor(DivNat(IntAbs(a), IntAbs(b)))
IntMod(a, b) == The({IntSub(a, IntMul(q, b)) : q \in {IntFloorDiv(a, b)}})

\* 2^k
Pow2(k) == [neg |-> FALSE, d |-> SubSeq([i \in 1..(k \div 8) |-> 0], 1, k \div 8) \o <<2 ^ (k % 8)>>]

RECURSIVE ByteLen(_)
ByteLen(x) == IF x = 0 THEN 0 ELSE 1 + ByteLen(x \div 2)
\* int.bit_length() of a >= 0
BitLen(a) == IF a.d = <<>> THEN 0 ELSE 8 * (Len(a.d) - 1) + ByteLen(a.d[Len(a.d)])

\* n / m (n >= 0, m > 0) rounded to the nearest integer, ties to even
RoundDiv(n, m) ==
  LET Up(q, twice) == IntLess(m, twice) \/ (twice = m /\ Bit(q, 0) = 1)
      Round(qr) == IF Up(qr.q, IntAdd(qr.r, qr.r)) THEN IntAdd(qr.q, Py(1)) ELSE qr.q
  IN  Round(DivNat(n, m))

\* int(a / b): the true quotient rounded to the nearest double (53 significant
\* bits, ties to even), then truncated towards zero
IntTrueDivInt(a, b) ==
  LET Sign(m) == IF a.neg # b.neg THEN IntNeg(m) ELSE m
      Rounded(A, B, q0, L) ==
        IF BitLen(A) <= 53 THEN q0
        ELSE IF L <= 53
          THEN DivNat(RoundDiv(IntMul(A, Pow2(53 - L)), B), Pow2(53 - L)).q
          ELSE IntMul(RoundDiv(A, IntMul(B, Pow2(L - 53))), Pow2(L - 53))
      Quot(A, B, q0) == Rounded(A, B, q0, BitLen(q0))
      Abs(A, B) == Quot(A, B, DivNat(A, B).q)
  IN  Sign(Abs(IntAbs(a), IntAbs(b)))

\* an integer literal of the source given by its bytes, low byte first
Lit(d) == Norm(FALSE, d)

(***************************************************************************)
(* bytes, bytearray indexing and slicing                                   *)
(***************************************************************************)

\* value.to_bytes(size, byteorder="little", signed=False): OverflowError for
\* a negative value or one that needs more than size bytes
to_bytes(value, size) ==
  [ok    |-> ~value.neg /\ Len(value.d) <= size,
   bytes |-> SubSeq([i \in 1..size |-> Dig(value, i)], 1, size)]

\* int.from_bytes(b, byteorder="little", signed=False), b of any length
from_bytes(b) == Norm(FALSE, b)

\* a slice bound i against a sequence of length n (PySlice_AdjustIndices):
\* a negative bound counts from the end, and both are clipped to 0..n
SliceIndex(i, n) ==
  IF i.neg THEN (IF IsSmall(i) THEN Max(0, IntVal(i) + n) ELSE 0)
  ELSE (IF IsSmall(i) THEN Min(IntVal(i), n) ELSE n)

\* memory[addr:addr+size]
GetSlice(memory, addr, size) ==
  LET start == SliceIndex(addr, Len(memory))
      stop  == SliceIndex(IntAdd(addr, Py(size)), Len(memory))
  IN  SubSeq(memory, start + 1, stop)

\* memory[addr:addr+size] = bytes: the bytes replace the slice, whatever its
\* length, so the bytearray grows when the slice is shorter than the bytes
SetSlice(memory, addr, size, bytes) ==
  LET start == SliceIndex(addr, Len(memory))
      stop  == SliceIndex(IntAdd(addr, Py(size)), Len(memory))
  IN  SubSeq(memory, 1, start) \o bytes \o SubSeq(memory, Max(start, stop) + 1, Len(memory))

\* the position (from 1) of memory[i], 0 when Python raises IndexError
ItemIndex(i, n) ==
  IF ~IsSmall(i) THEN 0
  ELSE LET v == IntVal(i)
           k == IF v < 0 THEN v + n ELSE v
       IN  IF 0 <= k /\ k < n THEN k + 1 ELSE 0

(***************************************************************************)
(* class VM                                                                *)
(***************************************************************************)

\* the memory size of the model's VM (mem_size of VM.__init__)
MemSize == 32

\* VM.__init__(mem_size)
VM(mem_size) ==
  [registers |-> [EAX |-> Py(0), EBX |-> Py(0), ECX |-> Py(0), EDX |-> Py(0),
                  ESI |-> Py(0), EDI |-> Py(0), EBP |-> Py(0),
                  ESP |-> Py(mem_size - 4), EIP |-> Py(0)],
   flags     |-> [ZF |-> 0, CF |-> 0, SF |-> 0, OF |-> 0, PF |-> 0, AF |-> 0],
   memory    |-> SubSeq([i \in 1..mem_size |-> 0], 1, mem_size),
   halted    |-> FALSE,
   log       |-> "unset"]

SetReg(vm, r, v) == [vm EXCEPT !.registers[r] = v]
SetFlag(vm, f, v) == [vm EXCEPT !.flags[f] = v]

\* what a handler leaves behind: the VM and the status string it returns, or
\* the VM as it was when a Python exception left the handler
Return(vm, status) == [vm |-> vm, status |-> status, raised |-> FALSE]
Raise(vm, exc) == [vm |-> vm, status |-> exc, raised |-> TRUE]

\* VM.push: ESP is decremented before to_bytes can raise
push(vm, value) ==
  LET vm1  == SetReg(vm, "ESP", IntSub(vm.registers.ESP, Py(4)))
      addr == vm1.registers.ESP
      b    == to_bytes(value, 4)
  IN  IF ~b.ok THEN Raise(vm1, "OverflowError")
      ELSE Return([vm1 EXCEPT !.memory = SetSlice(vm1.memory, addr, 4, b.bytes)], "")

\* VM.pop: the value read and the VM after it
pop(vm) ==
  LET addr == vm.registers.ESP
  IN  [value |-> from_bytes(GetSlice(vm.memory, addr, 4)),
       vm    |-> SetReg(vm, "ESP", IntAdd(addr, Py(4)))]

read_mem(vm, addr, size) == from_bytes(GetSlice(vm.memory, addr, size))

write_mem(vm, addr, value, size) ==
  LET b == to_bytes(value, size)
  IN  IF ~b.ok THEN Raise(vm, "OverflowError")
      ELSE Return([vm EXCEPT !.memory = SetSlice(vm.memory, addr, size, b.bytes)], "")

RECURSIVE PopCount(_)
PopCount(x) == IF x = 0 THEN 0 ELSE (x % 2) + PopCount(x \div 2)

\* VM.update_flags_arithmetic(result, bits)
update_flags_arithmetic(vm, result, bits) ==
  LET res == MaskBytes(result, bits \div 8)
  IN  [vm EXCEPT !.flags =
         [ZF |-> IF res = Py(0) THEN 1 ELSE 0,
          SF |-> Bit(res, bits - 1),
          CF |-> IF result # res THEN 1 ELSE 0,
          OF |-> 0,
          PF |-> IF PopCount(Dig(res, 1)) % 2 = 0 THEN 1 ELSE 0,
          AF |-> 0]]

(***************************************************************************)
(* Opcode handlers: the definitions the dispatch table of lines 900-1052   *)
(* binds, that is the last definition of each name in the file.            *)
(***************************************************************************)

One == Lit(<<1>>)
Four == Lit(<<4>>)
Mask32(x) == MaskBytes(x, 4)

\* vm.registers[r] = value; vm.update_flags_arithmetic(vm.registers[r]); return status
SetRegFlags(vm, r, value, status) ==
  Return(update_flags_arithmetic(SetReg(vm, r, value), value, 32), status)

\* vm.registers["EAX"] = eax; vm.registers["EDX"] = edx;
\* vm.update_flags_arithmetic(vm.registers["EAX"]); return status
SetEaxEdxFlags(vm, eax, edx, status) ==
  Return(update_flags_arithmetic([vm EXCEPT !.registers.EAX = eax, !.registers.EDX = edx],
                                 eax, 32), status)

op_nop(vm) == Return([vm EXCEPT !.log = "None"], "NOP")

op_add_eax_ebx(vm) ==
  LET result == IntAdd(vm.registers.EAX, vm.registers.EBX)
  IN  Return(update_flags_arithmetic(SetReg(vm, "EAX", Mask32(result)), result, 32), "ADD")

op_sub_eax_ebx(vm) ==
  LET result == IntSub(vm.registers.EAX, vm.registers.EBX)
  IN  Return(update_flags_arithmetic(SetReg(vm, "EAX", Mask32(result)), result, 32), "SUB")

op_mul_eax_ebx(vm) ==
  LET result == IntMul(vm.registers.EAX, vm.registers.EBX)
  IN  Return(update_flags_arithmetic(SetReg(vm, "EAX", Mask32(result)), result, 32), "MUL")

op_imul_eax_ebx(vm) ==
  LET result == Mask32(IntMul(vm.registers.EAX, vm.registers.EBX))
  IN  Return(update_flags_arithmetic(SetReg(vm, "EAX", result), result, 32), "IMUL")

\* op_div_eax_ebx with the halt of line 215 left out
op_div_eax_ebx_no_halt(vm) ==
  LET ebx == vm.registers.EBX
      eax == vm.registers.EAX
  IN  IF ebx = Py(0) THEN Return(vm, "DIV by zero")
      ELSE SetEaxEdxFlags(vm, IntFloorDiv(eax, ebx), IntMod(eax, ebx), "DIV")

op_div_eax_ebx(vm) ==
  LET ebx == vm.registers.EBX
      eax == vm.registers.EAX
  IN  IF ebx = Py(0) THEN Return([vm EXCEPT !.halted = TRUE], "DIV by zero")
      ELSE SetEaxEdxFlags(vm, IntFloorDiv(eax, ebx), IntMod(eax, ebx), "DIV")

op_idiv_eax_ebx(vm) ==
  LET ebx == vm.registers.EBX
      eax == vm.registers.EAX
  IN  IF ebx = Py(0) THEN Return([vm EXCEPT !.halted = TRUE], "IDIV by zero")
      ELSE SetEaxEdxFlags(vm, IntTrueDivInt(eax, ebx), IntMod(eax, ebx), "IDIV")

op_inc_eax(vm) == SetRegFlags(vm, "EAX", Mask32(IntAdd(vm.registers.EAX, One)), "INC")

op_dec_eax(vm) == SetRegFlags(vm, "EAX", Mask32(IntSub(vm.registers.EAX, One)), "DEC")

\* op_and_eax_ebx, op_or_eax_ebx, op_xor_eax_ebx: EAX op= EBX, unmasked
op_logic_eax_ebx(vm, op, status) ==
  SetRegFlags(vm, "EAX", IntBitOp(op, vm.registers.EAX, vm.registers.EBX), status)

op_not_eax(vm) == SetRegFlags(vm, "EAX", Mask32(IntNot(vm.registers.EAX)), "NOT")

op_shl_eax(vm) == SetRegFlags(vm, "EAX", Mask32(IntAdd(vm.registers.EAX, vm.registers.EAX)), "SHL")

op_shr_eax(vm) == SetRegFlags(vm, "EAX", Mask32(Shr1(vm.registers.EAX)), "SHR")

op_sar_eax(vm) ==
  SetRegFlags(vm, "EAX",
              IntBitOp("or", Shr1(vm.registers.EAX),
                       IntBitOp("and", vm.registers.EAX, Lit(<<0, 0, 0, 128>>))), "SAR")

\* op_jmp_rel8 (n = 1) and op_jmp_rel32 (n = 4): EIP += n
op_jmp_rel(vm, n) ==
  Return(SetReg(vm, "EIP", IntAdd(vm.registers.EIP, Py(n))), "JMP")

\* the op_call_rel32 of line 546, which replaces that of line 293
op_call_rel32(vm) ==
  LET p == push(vm, vm.registers.EIP)
  IN  IF p.raised THEN p
      ELSE Return(SetReg(p.vm, "EIP", IntAdd(p.vm.registers.EIP, Four)), "CALL rel32")

op_call_rm32(vm) ==
  LET p == push(vm, vm.registers.EIP)
  IN  IF p.raised THEN p
      ELSE Return(SetReg(p.vm, "EIP", p.vm.registers.EAX), "CALL R/M32")

op_ret(vm) ==
  LET p == pop(vm)
  IN  Return(SetReg(p.vm, "EIP", p.value), "RET")

op_ret_imm16(vm) ==
  LET p   == pop(vm)
      vm1 == SetReg(p.vm, "EIP", p.value)
  IN  Return(SetReg(vm1, "ESP", IntAdd(vm1.registers.ESP, Py(2))), "RET imm16")

\* op_int (vector 0x80) and op_int3 (vector 0xCC)
op_int(vm, vector, status) ==
  LET p == push(vm, vm.registers.EIP)
  IN  IF p.raised THEN p ELSE Return(SetReg(p.vm, "EIP", Py(vector)), status)

\* op_jcc(vm, opcode, cond) with cond(vm) already evaluated
op_jcc(vm, cond) ==
  IF cond THEN Return(SetReg(vm, "EIP", IntAdd(vm.registers.EIP, One)), "Branch taken")
  ELSE Return(vm, "Branch not taken")

cond_zf(vm) == vm.flags.ZF = 1
cond_nz(vm) == vm.flags.ZF = 0
cond_sf(vm) == vm.flags.SF = 1
cond_ns(vm) == vm.flags.SF = 0
cond_of(vm) == vm.flags.OF = 1
cond_no(vm) == vm.flags.OF = 0
cond_cf(vm) == vm.flags.CF = 1
cond_nc(vm) == vm.flags.CF = 0

op_hlt(vm) == Return([vm EXCEPT !.halted = TRUE], "HLT")

op_cmc(vm) == Return(SetFlag(vm, "CF", 1 - vm.flags.CF), "CMC")
op_clc(vm) == Return(SetFlag(vm, "CF", 0), "CLC")
op_stc(vm) == Return(SetFlag(vm, "CF", 1), "STC")

\* op_cli, op_sti, op_cld, op_std, op_wait: a status string and nothing else
op_simulated(vm, status) == Return(vm, status)

op_iret(vm) ==
  LET p == pop(vm)
  IN  Return(SetReg(p.vm, "EIP", p.value), "IRET")

\* op_loop without the test of ZF: LOOPE and LOOPNE branch like LOOP
op_loop_any(vm, zf, status) ==
  LET vm1 == SetReg(vm, "ECX", IntSub(vm.registers.ECX, One))
  IN  IF vm1.registers.ECX # Py(0)
      THEN Return(SetReg(vm1, "EIP", IntAdd(vm1.registers.EIP, One)), status)
      ELSE Return(vm1, status)

\* op_loop, op_loope, op_loopne: ECX -= 1, unmasked; zf is the value ZF must
\* have for the branch (-1 for LOOP, which does not read it)
op_loop(vm, zf, status) ==
  LET vm1 == SetReg(vm, "ECX", IntSub(vm.registers.ECX, One))
  IN  IF vm1.registers.ECX # Py(0) /\ (zf = -1 \/ vm1.flags.ZF = zf)
      THEN Return(SetReg(vm1, "EIP", IntAdd(vm1.registers.EIP, One)), status)
      ELSE Return(vm1, status)

op_mov_imm_eax(vm) == Return(SetReg(vm, "EAX", One), "MOV EAX, imm32")
op_mov_r32_rm32(vm) == Return(SetReg(vm, "EAX", vm.registers.EBX), "MOV EAX, EBX")
op_mov_rm32_r32(vm) == Return(SetReg(vm, "EBX", vm.registers.EAX), "MOV EBX, EAX")

\* op_push_eax .. op_push_edi, op_push_rm32 (r = "EAX")
op_push_reg(vm, r) ==
  LET p == push(vm, vm.registers[r])
  IN  IF p.raised THEN p ELSE Return(p.vm, "PUSH")

\* op_pop_eax .. op_pop_edi, op_pop_rm32 (r = "EAX")
op_pop_reg(vm, r) ==
  LET p == pop(vm)
  IN  Return(SetReg(p.vm, r, p.value), "POP")

op_stosb(vm) ==
  LET addr == vm.registers.EDI
      k    == ItemIndex(addr, Len(vm.memory))
  IN  IF k = 0 THEN Raise(vm, "IndexError")
      ELSE Return(SetReg([vm EXCEPT !.memory[k] = Dig(vm.registers.EAX, 1)],
                         "EDI", IntAdd(addr, One)), "STOSB")

op_stosd(vm) ==
  LET addr == vm.registers.EDI
      w    == write_mem(vm, addr, vm.registers.EAX, 4)
  IN  IF w.raised THEN w
      ELSE Return(SetReg(w.vm, "EDI", IntAdd(addr, Four)), "STOSD")

\* the placeholder immediate of the TEST handlers is 1
op_test_al_imm8(vm) ==
  LET res == IntBitOp("and", MaskBytes(vm.registers.EAX, 1), One)
  IN  Return(update_flags_arithmetic(vm, res, 8), "TEST AL")

op_test_eax_imm32(vm) ==
  LET res == IntBitOp("and", vm.registers.EAX, One)
  IN  Return(update_flags_arithmetic(vm, res, 32), "TEST EAX")

op_test_rm8_r8(vm) ==
  LET res == IntBitOp("and", MaskBytes(vm.registers.EAX, 1), MaskBytes(vm.registers.EBX, 1))
  IN  Return(update_flags_arithmetic(vm, res, 8), "TEST R/M8")

op_test_rm32_r32(vm) ==
  LET res == IntBitOp("and", vm.registers.EAX, vm.registers.EBX)
  IN  Return(update_flags_arithmetic(vm, res, 32), "TEST R/M32")

op_inc_edi(vm) == SetRegFlags(vm, "EDI", Mask32(IntAdd(vm.registers.EDI, One)), "INC EDI")

op_dec_ecx(vm) == SetRegFlags(vm, "ECX", Mask32(IntSub(vm.registers.ECX, One)), "DEC ECX")

op_jmp_rm32(vm) == Return(SetReg(vm, "EIP", vm.registers.EAX), "JMP R/M32")

\* op_jne_rel8 .. op_jae_rel8 (opcodes 0x77 .. 0x88): the test each makes
jcc_rel8_cond(opcode, flags) ==
  CASE opcode = 119 -> flags.ZF = 0                                \* 0x77 op_jne_rel8
    [] opcode = 120 -> flags.ZF = 1                                \* 0x78 op_je_rel8
    [] opcode = 121 -> flags.SF # flags.OF                         \* 0x79 op_jl_rel8
    [] opcode = 122 -> flags.ZF = 1 \/ flags.SF # flags.OF         \* 0x7A op_jle_rel8
    [] opcode = 123 -> flags.ZF = 0 /\ flags.SF = flags.OF         \* 0x7B op_jg_rel8
    [] opcode = 124 -> flags.SF = flags.OF                         \* 0x7C op_jge_rel8
    [] opcode = 125 -> flags.PF = 1                                \* 0x7D op_jp_rel8
    [] opcode = 126 -> flags.PF = 0                                \* 0x7E op_jnp_rel8
    [] opcode = 127 -> flags.OF = 1                                \* 0x7F op_jo_rel8
    [] opcode = 128 -> flags.OF = 0                                \* 0x80 op_jno_rel8
    [] opcode = 129 -> flags.SF = 1                                \* 0x81 op_js_rel8
    [] opcode = 130 -> flags.SF = 0                                \* 0x82 op_jns_rel8
    [] opcode = 131 -> flags.CF = 1 \/ flags.ZF = 1                \* 0x83 op_jbe_rel8
    [] opcode = 132 -> flags.CF = 0 /\ flags.ZF = 0                \* 0x84 op_ja_rel8
    [] opcode = 133 -> flags.ZF = 1                                \* 0x85 op_jz_rel8
    [] opcode = 134 -> flags.ZF = 0                                \* 0x86 op_jnz_rel8
    [] opcode = 135 -> flags.CF = 1                                \* 0x87 op_jb_rel8
    [] opcode = 136 -> flags.CF = 0                                \* 0x88 op_jae_rel8

\* the handlers' body with the rel32 width of op_jmp_rel32 in place of 1
op_jcc_rel8_by_four(vm, opcode) ==
  IF jcc_rel8_cond(opcode, vm.flags)
  THEN Return(SetReg(vm, "EIP", IntAdd(vm.registers.EIP, Four)), "Jcc rel8 taken")
  ELSE Return(vm, "Jcc rel8 not taken")

\* the body the eighteen handlers share: EIP += 1 when the test holds
op_jcc_rel8(vm, opcode) ==
  IF jcc_rel8_cond(opcode, vm.flags)
  THEN Return(SetReg(vm, "EIP", IntAdd(vm.registers.EIP, One)), "Jcc rel8 taken")
  ELSE Return(vm, "Jcc rel8 not taken")

\* the flags in the order the dict declares them
FlagOrder == <<"ZF", "CF", "SF", "OF", "PF", "AF">>

op_pushf(vm) ==
  LET F[i \in 0..6] == IF i = 0 THEN 0 ELSE F[i - 1] + vm.flags[FlagOrder[i]] * (2 ^ (i - 1))
      p == push(vm, Py(F[6]))
  IN  IF p.raised THEN p ELSE Return(p.vm, "PUSHF")

op_popf(vm) ==
  LET p == pop(vm)
  IN  Return([p.vm EXCEPT !.flags =
                [f \in DOMAIN vm.flags |->
                   Bit(p.value, (CHOOSE i \in 1..6 : FlagOrder[i] = f) - 1)]], "POPF")

op_sahf(vm) ==
  LET eax == vm.registers.EAX
  IN  Return([vm EXCEPT !.flags.SF = Bit(eax, 15), !.flags.ZF = Bit(eax, 14),
                        !.flags.AF = Bit(eax, 12), !.flags.PF = Bit(eax, 10),
                        !.flags.CF = Bit(eax, 8)], "SAHF")

op_lahf(vm) ==
  LET ah == vm.flags.SF * 128 + vm.flags.ZF * 64 + vm.flags.AF * 16
            + vm.flags.PF * 4 + vm.flags.CF
  IN  Return(SetReg(vm, "EAX",
                    IntBitOp("or", IntBitOp("and", vm.registers.EAX, Lit(<<255, 0, 255, 255>>)),
                             ShlBytes(Py(ah), 1))), "LAHF")

op_cbw(vm) ==
  LET eax == vm.registers.EAX
  IN  IF Bit(eax, 7) = 1
      THEN Return(SetReg(vm, "EAX", IntBitOp("or", eax, Lit(<<0, 255>>))), "CBW")
      ELSE Return(SetReg(vm, "EAX", IntBitOp("and", eax, Lit(<<255, 0, 255, 255>>))), "CBW")

op_cwd(vm) ==
  IF Bit(vm.registers.EAX, 15) = 1
  THEN Return(SetReg(vm, "EDX", Lit(<<255, 255>>)), "CWD")
  ELSE Return(SetReg(vm, "EDX", Py(0)), "CWD")

\* "CS" is no key of the registers, so the first word pushed is 0
op_callf(vm) ==
  LET p1 == push(vm, Py(0))
      p2 == push(p1.vm, IntAdd(p1.vm.registers.EIP, Four))
  IN  IF p1.raised THEN p1
      ELSE IF p2.raised THEN p2
      ELSE Return(SetReg(p2.vm, "EIP", Lit(<<0, 16>>)), "CALLF")

\* ESI += n and EDI += n, unmasked
AdvanceSiDi(vm, n) ==
  [vm EXCEPT !.registers.ESI = IntAdd(@, Py(n)), !.registers.EDI = IntAdd(@, Py(n))]

op_movsb(vm) ==
  LET n == Len(vm.memory)
      s == ItemIndex(vm.registers.ESI, n)
      d == ItemIndex(vm.registers.EDI, n)
  IN  IF s = 0 \/ d = 0 THEN Raise(vm, "IndexError")
      ELSE Return(AdvanceSiDi([vm EXCEPT !.memory[d] = vm.memory[s]], 1), "MOVSB")

op_movsd(vm) ==
  LET val == read_mem(vm, vm.registers.ESI, 4)
      w   == write_mem(vm, vm.registers.EDI, val, 4)
  IN  IF w.raised THEN w ELSE Return(AdvanceSiDi(w.vm, 4), "MOVSD")

op_cmpsb(vm) ==
  LET n == Len(vm.memory)
      s == ItemIndex(vm.registers.ESI, n)
      d == ItemIndex(vm.registers.EDI, n)
  IN  IF s = 0 \/ d = 0 THEN Raise(vm, "IndexError")
      ELSE LET res == IntSub(Py(vm.memory[s]), Py(vm.memory[d]))
           IN  Return(AdvanceSiDi(update_flags_arithmetic(vm, res, 8), 1), "CMPSB")

op_cmpsd(vm) ==
  LET a   == read_mem(vm, vm.registers.ESI, 4)
      b   == read_mem(vm, vm.registers.EDI, 4)
  IN  Return(AdvanceSiDi(update_flags_arithmetic(vm, IntSub(a, b), 32), 4), "CMPSD")

\* (EAX & 0xFFFFFF00) | al, al a byte
SetAL(eax, al) ==
  IntBitOp("or", IntBitOp("and", eax, Lit(<<0, 255, 255, 255>>)), Py(al))

op_lodsb(vm) ==
  LET s == ItemIndex(vm.registers.ESI, Len(vm.memory))
  IN  IF s = 0 THEN Raise(vm, "IndexError")
      ELSE Return([vm EXCEPT !.registers.EAX = SetAL(@, vm.memory[s]),
                             !.registers.ESI = IntAdd(@, One)], "LODSB")

op_lodsd(vm) ==
  Return([vm EXCEPT !.registers.EAX = read_mem(vm, vm.registers.ESI, 4),
                    !.registers.ESI = IntAdd(@, Four)], "LODSD")

op_scasb(vm) ==
  LET d == ItemIndex(vm.registers.EDI, Len(vm.memory))
  IN  IF d = 0 THEN Raise(vm, "IndexError")
      ELSE LET res == IntSub(MaskBytes(vm.registers.EAX, 1), Py(vm.memory[d]))
           IN  Return(SetReg(update_flags_arithmetic(vm, res, 8),
                             "EDI", IntAdd(vm.registers.EDI, One)), "SCASB")

op_scasd(vm) ==
  LET res == IntSub(vm.registers.EAX, read_mem(vm, vm.registers.EDI, 4))
  IN  Return(SetReg(update_flags_arithmetic(vm, res, 32),
                    "EDI", IntAdd(vm.registers.EDI, Four)), "SCASD")

\* op_xchg_eax_esp, op_xchg_eax_ebp, op_xchg_eax_esi, op_xchg_eax_edi
op_xchg_eax(vm, r) ==
  Return([vm EXCEPT !.registers.EAX = vm.registers[r],
                    !.registers[r] = vm.registers.EAX], "XCHG")

\* the placeholder immediate of CMP is 1
op_cmp_rm32_imm32(vm) ==
  Return(update_flags_arithmetic(vm, IntSub(vm.registers.EAX, One), 32), "CMP EAX, 1")

op_cmp_rm32_r32(vm) ==
  Return(update_flags_arithmetic(vm, IntSub(vm.registers.EAX, vm.registers.EBX), 32),
         "CMP EAX, EBX")

\* EAX = result & 0xFFFFFFFF, EDX = (result >> 32) & 0xFFFFFFFF, flags from EAX
SetProduct(vm, result, status) ==
  SetEaxEdxFlags(vm, Mask32(result), Mask32(ShrBytes(result, 4)), status)

op_mul_rm32(vm) ==
  SetProduct(vm, IntMul(vm.registers.EAX, vm.registers.EBX), "MUL EAX*EBX")

op_imul_rm32(vm) ==
  SetProduct(vm, MaskBytes(IntMul(vm.registers.EAX, vm.registers.EBX), 8), "IMUL EAX*EBX")

\* (EDX << 32) | EAX
Dividend(vm) == IntBitOp("or", ShlBytes(vm.registers.EDX, 4), vm.registers.EAX)

op_div_rm32(vm) ==
  LET divisor == vm.registers.EBX
  IN  IF divisor = Py(0) THEN Return([vm EXCEPT !.halted = TRUE], "DIV by zero")
      ELSE SetEaxEdxFlags(vm, Mask32(IntFloorDiv(Dividend(vm), divisor)),
                          Mask32(IntMod(Dividend(vm), divisor)), "DIV EDX:EAX/EBX")

op_idiv_rm32(vm) ==
  LET divisor == vm.registers.EBX
  IN  IF divisor = Py(0) THEN Return([vm EXCEPT !.halted = TRUE], "IDIV by zero")
      ELSE SetEaxEdxFlags(vm, Mask32(IntTrueDivInt(Dividend(vm), divisor)),
                          Mask32(IntMod(Dividend(vm), divisor)), "IDIV EDX:EAX/EBX")

\* op_sete_al .. op_setno_al (opcodes 0xB4 .. 0xBB): the condition each stores
setcc_cond(opcode, flags) ==
  CASE opcode = 180 -> flags.ZF = 1                                \* 0xB4 op_sete_al
    [] opcode = 181 -> flags.ZF = 0                                \* 0xB5 op_setne_al
    [] opcode = 182 -> flags.SF # flags.OF                         \* 0xB6 op_setl_al
    [] opcode = 183 -> flags.SF = flags.OF                         \* 0xB7 op_setge_al
    [] opcode = 184 -> flags.ZF = 0 /\ flags.SF = flags.OF         \* 0xB8 op_setg_al
    [] opcode = 185 -> flags.ZF = 1 \/ flags.SF # flags.OF         \* 0xB9 op_setle_al
    [] opcode = 186 -> flags.OF = 1                                \* 0xBA op_seto_al
    [] opcode = 187 -> flags.OF = 0                                \* 0xBB op_setno_al

op_setcc_al(vm, opcode) ==
  Return(SetReg(vm, "EAX",
                SetAL(vm.registers.EAX, IF setcc_cond(opcode, vm.flags) THEN 1 ELSE 0)),
         "SETcc AL")

(***************************************************************************)
(* The dispatch table and Executor.execute                                 *)
(***************************************************************************)

\* the keys of OPCODE_EXECUTORS: 0x00, 0x0B-0x12, 0x1B-0x21, 0x2E-0x3D,
\* 0x40-0x4B, 0x54-0x88, 0x94-0xAD, 0xB4-0xBB
OPCODE_KEYS ==
  {0} \cup (11..18) \cup (27..33) \cup (46..61) \cup (64..75) \cup (84..136)
      \cup (148..173) \cup (180..187)

\* OPCODE_EXECUTORS[opcode](vm, opcode)
OPCODE_EXECUTORS(vm, opcode) ==
  CASE opcode = 0 -> op_nop(vm)                                    \* 0x00
    [] opcode = 11 -> op_add_eax_ebx(vm)                           \* 0x0B
    [] opcode = 12 -> op_sub_eax_ebx(vm)                           \* 0x0C
    [] opcode = 13 -> op_mul_eax_ebx(vm)                           \* 0x0D
    [] opcode = 14 -> op_imul_eax_ebx(vm)                          \* 0x0E
    [] opcode = 15 -> op_div_eax_ebx(vm)                           \* 0x0F
    [] opcode = 16 -> op_idiv_eax_ebx(vm)                          \* 0x10
    [] opcode = 17 -> op_inc_eax(vm)                               \* 0x11
    [] opcode = 18 -> op_dec_eax(vm)                               \* 0x12
    [] opcode = 27 -> op_logic_eax_ebx(vm, "and", "AND")           \* 0x1B
    [] opcode = 28 -> op_logic_eax_ebx(vm, "or", "OR")             \* 0x1C
    [] opcode = 29 -> op_logic_eax_ebx(vm, "xor", "XOR")           \* 0x1D
    [] opcode = 30 -> op_not_eax(vm)                               \* 0x1E
    [] opcode = 31 -> op_shl_eax(vm)                               \* 0x1F
    [] opcode = 32 -> op_shr_eax(vm)                               \* 0x20
    [] opcode = 33 -> op_sar_eax(vm)                               \* 0x21
    [] opcode \in {46, 117} -> op_jmp_rel(vm, 1)                   \* 0x2E, 0x75
    [] opcode \in {47, 118} -> op_jmp_rel(vm, 4)                   \* 0x2F, 0x76
    [] opcode \in {48, 115} -> op_call_rel32(vm)                   \* 0x30, 0x73
    [] opcode = 49 -> op_call_rm32(vm)                             \* 0x31
    [] opcode \in {50, 103} -> op_ret(vm)                          \* 0x32, 0x67
    [] opcode \in {51, 104} -> op_ret_imm16(vm)                    \* 0x33, 0x68
    [] opcode \in {52, 101} -> op_int(vm, 128, "INT imm8")         \* 0x34, 0x65
    [] opcode \in {53, 102} -> op_int(vm, 204, "INT3")             \* 0x35, 0x66
    [] opcode = 54 -> op_jcc(vm, cond_zf(vm))                      \* 0x36
    [] opcode = 55 -> op_jcc(vm, cond_nz(vm))                      \* 0x37
    [] opcode = 56 -> op_jcc(vm, cond_sf(vm))                      \* 0x38
    [] opcode = 57 -> op_jcc(vm, cond_ns(vm))                      \* 0x39
    [] opcode = 58 -> op_jcc(vm, cond_of(vm))                      \* 0x3A
    [] opcode = 59 -> op_jcc(vm, cond_no(vm))                      \* 0x3B
    [] opcode = 60 -> op_jcc(vm, cond_cf(vm))                      \* 0x3C
    [] opcode = 61 -> op_jcc(vm, cond_nc(vm))                      \* 0x3D
    [] opcode = 64 -> op_hlt(vm)                                   \* 0x40
    [] opcode = 65 -> op_cmc(vm)                                   \* 0x41
    [] opcode = 66 -> op_clc(vm)                                   \* 0x42
    [] opcode = 67 -> op_stc(vm)                                   \* 0x43
    [] opcode = 68 -> op_simulated(vm, "CLI")                      \* 0x44
    [] opcode = 69 -> op_simulated(vm, "STI")                      \* 0x45
    [] opcode = 70 -> op_simulated(vm, "CLD")                      \* 0x46
    [] opcode = 71 -> op_simulated(vm, "STD")                      \* 0x47
    [] opcode = 72 -> op_iret(vm)                                  \* 0x48
    [] opcode = 73 -> op_loop(vm, -1, "LOOP")                      \* 0x49
    [] opcode = 74 -> op_loop(vm, 1, "LOOPE")                      \* 0x4A
    [] opcode = 75 -> op_loop(vm, 0, "LOOPNE")                     \* 0x4B
    [] opcode = 84 -> op_mov_imm_eax(vm)                           \* 0x54
    [] opcode = 85 -> op_mov_r32_rm32(vm)                          \* 0x55
    [] opcode = 86 -> op_mov_rm32_r32(vm)                          \* 0x56
    [] opcode = 87 -> op_push_reg(vm, "ECX")                       \* 0x57
    [] opcode = 88 -> op_pop_reg(vm, "ECX")                        \* 0x58
    [] opcode = 89 -> op_push_reg(vm, "EDX")                       \* 0x59
    [] opcode = 90 -> op_pop_reg(vm, "EDX")                        \* 0x5A
    [] opcode = 91 -> op_push_reg(vm, "EBX")                       \* 0x5B
    [] opcode = 92 -> op_pop_reg(vm, "EBX")                        \* 0x5C
    [] opcode \in {93, 113} -> op_push_reg(vm, "EAX")              \* 0x5D, 0x71
    [] opcode \in {94, 114} -> op_pop_reg(vm, "EAX")               \* 0x5E, 0x72
    [] opcode = 95 -> op_push_reg(vm, "EBP")                       \* 0x5F
    [] opcode = 96 -> op_pop_reg(vm, "EBP")                        \* 0x60
    [] opcode = 97 -> op_push_reg(vm, "ESI")                       \* 0x61
    [] opcode = 98 -> op_pop_reg(vm, "ESI")                        \* 0x62
    [] opcode = 99 -> op_push_reg(vm, "EDI")                       \* 0x63
    [] opcode = 100 -> op_pop_reg(vm, "EDI")                       \* 0x64
    [] opcode = 105 -> op_stosb(vm)                                \* 0x69
    [] opcode = 106 -> op_stosd(vm)                                \* 0x6A
    [] opcode = 107 -> op_test_al_imm8(vm)                         \* 0x6B
    [] opcode = 108 -> op_test_eax_imm32(vm)                       \* 0x6C
    [] opcode = 109 -> op_test_rm8_r8(vm)                          \* 0x6D
    [] opcode = 110 -> op_test_rm32_r32(vm)                        \* 0x6E
    [] opcode = 111 -> op_inc_edi(vm)                              \* 0x6F
    [] opcode = 112 -> op_dec_ecx(vm)                              \* 0x70
    [] opcode = 116 -> op_jmp_rm32(vm)                             \* 0x74
    [] opcode \in 119..136 -> op_jcc_rel8(vm, opcode)              \* 0x77-0x88
    [] opcode = 148 -> op_pushf(vm)                                \* 0x94
    [] opcode = 149 -> op_popf(vm)                                 \* 0x95
    [] opcode = 150 -> op_sahf(vm)                                 \* 0x96
    [] opcode = 151 -> op_lahf(vm)                                 \* 0x97
    [] opcode = 152 -> op_cbw(vm)                                  \* 0x98
    [] opcode = 153 -> op_cwd(vm)                                  \* 0x99
    [] opcode = 154 -> op_callf(vm)                                \* 0x9A
    [] opcode = 155 -> op_simulated(vm, "WAIT")                    \* 0x9B
    [] opcode = 156 -> op_movsb(vm)                                \* 0x9C
    [] opcode = 157 -> op_movsd(vm)                                \* 0x9D
    [] opcode = 158 -> op_cmpsb(vm)                                \* 0x9E
    [] opcode = 159 -> op_cmpsd(vm)                                \* 0x9F
    [] opcode = 160 -> op_lodsb(vm)                                \* 0xA0
    [] opcode = 161 -> op_lodsd(vm)                                \* 0xA1
    [] opcode = 162 -> op_scasb(vm)                                \* 0xA2
    [] opcode = 163 -> op_scasd(vm)                                \* 0xA3
    [] opcode = 164 -> op_xchg_eax(vm, "ESP")                      \* 0xA4
    [] opcode = 165 -> op_xchg_eax(vm, "EBP")                      \* 0xA5
    [] opcode = 166 -> op_xchg_eax(vm, "ESI")                      \* 0xA6
    [] opcode = 167 -> op_xchg_eax(vm, "EDI")                      \* 0xA7
    [] opcode = 168 -> op_cmp_rm32_imm32(vm)                       \* 0xA8
    [] opcode = 169 -> op_cmp_rm32_r32(vm)                         \* 0xA9
    [] opcode = 170 -> op_mul_rm32(vm)                             \* 0xAA
    [] opcode = 171 -> op_imul_rm32(vm)                            \* 0xAB
    [] opcode = 172 -> op_div_rm32(vm)                             \* 0xAC
    [] opcode = 173 -> op_idiv_rm32(vm)                            \* 0xAD
    [] opcode \in 180..187 -> op_setcc_al(vm, opcode)              \* 0xB4-0xBB

\* Executor.execute(opcode) on the executor's VM (trace off)
\* execute with the test of line 103 sending an opcode without an entry to the
\* HLT handler
execute_unknown_halts(vm, opcode) ==
  IF opcode \notin OPCODE_KEYS THEN op_hlt(vm)
  ELSE OPCODE_EXECUTORS(vm, opcode)

execute(vm, opcode) ==
  IF opcode \notin OPCODE_KEYS THEN Return(vm, "Unknown opcode")
  ELSE OPCODE_EXECUTORS(vm, opcode)

(***************************************************************************)
(* The evaluator.  The sources hold EvalVisitor in several versions, each   *)
(* file reusing the methods of an earlier one; st.ev names the version a    *)
(* driver has imported, and a method that the versions write differently    *)
(* branches on it.  st is the evaluator object: env, the routines table     *)
(* funcs, the task registry tasks, and out, the lines written so far.       *)
(***************************************************************************)

\* Python values: None, int, bool, str (its characters), list, and dict (its
\* items, in insertion order)
None == [t |-> "none"]
Num(n) == [t |-> "int", v |-> n]
Bool(b) == [t |-> "bool", v |-> b]
Str(s) == [t |-> "str", v |-> s]
List(s) == [t |-> "list", v |-> s]
Dict(s) == [t |-> "dict", v |-> s]

\* bool(v)
truthy(v) ==
  CASE v.t = "none" -> FALSE
    [] v.t = "int" -> v.v # 0
    [] v.t = "bool" -> v.v
    [] v.t \in {"str", "list", "dict"} -> v.v # <<>>
    [] OTHER -> TRUE

\* key in d, d[key] and d.get(key) of a dict
HasKey(d, key) == \E i \in 1..Len(d.v) : d.v[i][1] = key
GetKey(d, key) ==
  IF HasKey(d, key) THEN d.v[CHOOSE i \in 1..Len(d.v) : d.v[i][1] = key][2] ELSE None

\* left == right of two values, and of two environments
RECURSIVE Same(_, _)
Same(l, r) ==
  LET number(x) == IF x.t = "bool" THEN (IF x.v THEN 1 ELSE 0) ELSE x.v
  IN  CASE l.t \in {"int", "bool"} /\ r.t \in {"int", "bool"} -> number(l) = number(r)
        [] l.t # r.t -> FALSE
        [] l.t = "list" ->
             Len(l.v) = Len(r.v) /\ \A i \in 1..Len(l.v) : Same(l.v[i], r.v[i])
        [] l.t = "dict" ->
             /\ Len(l.v) = Len(r.v)
             /\ \A i \in 1..Len(l.v) :
                  HasKey(r, l.v[i][1]) /\ Same(l.v[i][2], GetKey(r, l.v[i][1]))
        [] l.t = "str" -> l.v = r.v
        [] l.t = "none" -> TRUE
        [] OTHER -> l = r

SameEnv(e, f) == DOMAIN e = DOMAIN f /\ \A n \in DOMAIN e : Same(e[n], f[n])

\* list(v)
ToList(v) ==
  CASE v.t = "list" -> v.v
    [] v.t = "str" -> [i \in 1..Len(v.v) |-> Str(<<v.v[i]>>)]
    [] v.t = "dict" -> [i \in 1..Len(v.v) |-> Str(v.v[i][1])]

\* str(n) of an int
RECURSIVE DecStr(_)
DecStr(n) ==
  IF n < 0 THEN "-" \o DecStr(-n)
  ELSE IF n < 10 THEN <<"0", "1", "2", "3", "4", "5", "6", "7", "8", "9">>[n + 1]
  ELSE DecStr(n \div 10) \o DecStr(n % 10)

RECURSIVE Join(_)
Join(s) == IF s = <<>> THEN "" ELSE Head(s) \o Join(Tail(s))

\* str(v), the line that print(v) writes
RECURSIVE PyStr(_, _)
PyStr(v, quoted) ==
  CASE v.t = "none" -> "None"
    [] v.t = "int" -> DecStr(v.v)
    [] v.t = "bool" -> IF v.v THEN "True" ELSE "False"
    [] v.t = "str" -> IF quoted THEN "'" \o Join(v.v) \o "'" ELSE Join(v.v)
    [] v.t = "list" ->
         "[" \o Join([i \in 1..Len(v.v) |->
                        (IF i > 1 THEN ", " ELSE "") \o PyStr(v.v[i], TRUE)]) \o "]"
    [] v.t = "dict" ->
         "{" \o Join([i \in 1..Len(v.v) |->
                        (IF i > 1 THEN ", " ELSE "") \o "'" \o Join(v.v[i][1]) \o "': "
                          \o PyStr(v.v[i][2], TRUE)]) \o "}"
    [] OTHER -> "<object>"

\* self.env[n] = v
EnvSet(env, n, v) == [x \in DOMAIN env \cup {n} |-> IF x = n THEN v ELSE env[x]]

\* what a visit leaves: the evaluator, the value returned and the exception
\* raised ("" when it returned)
Ok(st, v) == [st |-> st, v |-> v, exc |-> ""]
Exc(st, msg) == [st |-> st, v |-> None, exc |-> msg]
Bind(st, n, v) == [st EXCEPT !.env = EnvSet(st.env, n, v)]
Write(st, line) == [st EXCEPT !.out = Append(st.out, line)]

\* a node that is None
NoNode == [k |-> "None"]

\* a // b
FloorDiv(a, b) == IF b > 0 THEN a \div b ELSE (-a) \div (-b)

\* the operators of visit_BinaryOp applied to two values
ApplyOp(st, l, op, r) ==
  LET ints == l.t = "int" /\ r.t = "int"
  IN  CASE op = "+" /\ ints -> Ok(st, Num(l.v + r.v))
        [] op = "+" /\ l.t = "str" /\ r.t = "str" -> Ok(st, Str(l.v \o r.v))
        [] op = "+" /\ l.t = "list" /\ r.t = "list" -> Ok(st, List(l.v \o r.v))
        [] op = "-" /\ ints -> Ok(st, Num(l.v - r.v))
        [] op = "*" /\ ints -> Ok(st, Num(l.v * r.v))
        [] op = "/" /\ ints ->
             IF r.v = 0 THEN Exc(st, "integer division or modulo by zero")
             ELSE Ok(st, Num(FloorDiv(l.v, r.v)))
        [] op = "==" -> Ok(st, Bool(Same(l, r)))
        [] op = "!=" -> Ok(st, Bool(~Same(l, r)))
        [] op = "<" /\ ints -> Ok(st, Bool(l.v < r.v))
        [] op = ">" /\ ints -> Ok(st, Bool(l.v > r.v))
        [] op = "<=" /\ ints -> Ok(st, Bool(l.v <= r.v))
        [] op = ">=" /\ ints -> Ok(st, Bool(l.v >= r.v))
        [] op \in {"+", "-", "*", "/", "<", ">", "<=", ">="} ->
             Exc(st, "unsupported operand type(s)")
        [] OTHER -> Exc(st, "Unsupported operator")

\* patterns: a name ("_" the wildcard), a list of patterns, ObjectPattern,
\* DestructureSlot, AliasSlot and RestSlot; alias "" and default NoNode are None
PName(name) == [p |-> "id", name |-> name]
PList(items) == [p |-> "list", items |-> items]
ObjectPattern(slots) == [p |-> "object", slots |-> slots]
ObjectSlot(key, name, alias, default) ==
  [key |-> key, name |-> name, alias |-> alias, default |-> default]
DestructureSlot(name, default) == [p |-> "slot", name |-> name, default |-> default]
AliasSlot(name, alias, default) ==
  [p |-> "alias", name |-> name, alias |-> alias, default |-> default]
RestSlot(name) == [p |-> "rest", name |-> name]

\* the key of self.env[names] = values: the name, or for a pattern object,
\* which is hashable, the object itself, which no identifier reads
Key(names) == IF names.p = "id" THEN names.name ELSE "<" \o names.p \o ">"

RECURSIVE visit(_, _)
RECURSIVE Block(_, _)
RECURSIVE run_until_complete(_)
RECURSIVE await(_)
RECURSIVE _await_task(_, _)
RECURSIVE _bind_values(_, _, _)
RECURSIVE BindItems(_, _, _, _)
RECURSIVE BindSlots(_, _, _, _)
RECURSIVE _match_pattern(_, _, _)
RECURSIVE MatchItems(_, _, _, _)
RECURSIVE MatchSlots(_, _, _, _)

\* v, or the default evaluated when v is None and there is a default
SlotValue(default, v, st) ==
  IF v = None /\ default # NoNode THEN visit(default, st) ELSE Ok(st, v)

\* self.env[name] = v and, with an alias, self.env[alias] = v
BindBoth(st, name, alias, v) ==
  IF alias = "" THEN Bind(st, name, v) ELSE Bind(Bind(st, name, v), alias, v)

\* the versions whose _bind_values walks a list of names with zip(names, values)
ZipBinders == {"nested", "hof", "combinators"}

\* the loop of _bind_values over a list of names, from index i
BindItems(names, values, i, st) ==
  IF i > Len(names) THEN Ok(st, None)
  ELSE IF st.ev \notin ZipBinders /\ names[i].p = "rest"
  THEN Ok(Bind(st, names[i].name, List(SubSeq(values, i, Len(values)))), None)
  ELSE IF st.ev \in ZipBinders /\ i > Len(values) THEN Ok(st, None)
  ELSE LET Rest(r) == IF r.exc # "" THEN r ELSE BindItems(names, values, i + 1, r.st)
       IN  Rest(_bind_values(names[i], IF i <= Len(values) THEN values[i] ELSE None, st))

\* the loop of _bind_values over the slots of an ObjectPattern, from index i
BindSlots(slots, values, i, st) ==
  IF i > Len(slots) THEN Ok(st, None)
  ELSE LET slot == slots[i]
           Rest(d) ==
             IF d.exc # "" THEN d
             ELSE IF slot.name.p = "list" THEN Exc(d.st, "unhashable type: 'list'")
             ELSE BindSlots(slots, values, i + 1,
                            BindBoth(d.st, slot.name.name, slot.alias, d.v))
       IN  Rest(SlotValue(slot.default, GetKey(values, slot.key), st))

_bind_values(names, values, st) ==
  IF st.ev = "nested"
  THEN IF names.p = "list"
       THEN IF values.t # "list"
            THEN Exc(st, "Mismatch: expected list/tuple in destructuring")
            ELSE BindItems(names.items, values.v, 1, st)
       ELSE Ok(Bind(st, Key(names), values), None)
  ELSE CASE names.p = "list" ->
              IF values.t # "list"
              THEN Exc(st, IF st.ev \in ZipBinders THEN "object is not iterable"
                           ELSE "Mismatch: expected list/tuple in destructuring")
              ELSE BindItems(names.items, values.v, 1, st)
         [] names.p = "object" ->
              IF values.t # "dict"
              THEN Exc(st, IF st.ev \in ZipBinders THEN "object has no attribute 'get'"
                           ELSE "Mismatch: expected dict/object in destructuring")
              ELSE BindSlots(names.slots, values, 1, st)
         [] names.p = "slot" ->
              LET Set(d) == IF d.exc # "" THEN d ELSE Ok(Bind(d.st, names.name, d.v), None)
              IN  Set(SlotValue(names.default, values, st))
         [] names.p = "alias" ->
              LET Set(d) ==
                    IF d.exc # "" THEN d
                    ELSE Ok(Bind(Bind(d.st, names.name, d.v), names.alias, d.v), None)
              IN  Set(SlotValue(names.default, values, st))
         [] names.p = "rest" ->
              IF values = None /\ st.ev \notin ZipBinders
              THEN Ok(Bind(st, names.name, List(<<>>)), None)
              ELSE IF values.t \in {"list", "str", "dict"}
              THEN Ok(Bind(st, names.name, List(ToList(values))), None)
              ELSE Exc(st, "object is not iterable")
         [] OTHER -> Ok(Bind(st, Key(names), values), None)

\* what _match_pattern leaves: the evaluator, the boolean returned and the
\* exception raised
Matched(st, ok) == [st |-> st, ok |-> ok, exc |-> ""]
MatchExc(r) == [st |-> r.st, ok |-> FALSE, exc |-> r.exc]

\* the loop of _match_pattern over zip(pattern, value), from index i
MatchItems(pattern, value, i, st) ==
  IF i > Len(pattern) THEN Matched(st, TRUE)
  ELSE LET Rest(m) ==
             IF m.exc # "" \/ ~m.ok THEN m ELSE MatchItems(pattern, value, i + 1, m.st)
       IN  Rest(_match_pattern(pattern[i], value[i], st))

\* the loop of _match_pattern over the slots of an ObjectPattern, from index i
MatchSlots(slots, value, i, st) ==
  IF i > Len(slots) THEN Matched(st, TRUE)
  ELSE LET slot == slots[i]
           Rest(m) ==
             IF m.exc # "" \/ ~m.ok THEN m ELSE MatchSlots(slots, value, i + 1, m.st)
           Default(d) ==
             IF d.exc # "" THEN MatchExc(d)
             ELSE Matched(BindBoth(d.st, slot.name.name, slot.alias, d.v), TRUE)
       IN  IF ~HasKey(value, slot.key)
           THEN IF slot.default # NoNode THEN Rest(Default(visit(slot.default, st)))
                ELSE Matched(st, FALSE)
           ELSE IF slot.name.p \in {"object", "list"}
           THEN Rest(_match_pattern(slot.name, GetKey(value, slot.key), st))
           ELSE Rest(Matched(BindBoth(st, slot.name.name, slot.alias,
                                      GetKey(value, slot.key)), TRUE))

_match_pattern(pattern, value, st) ==
  IF pattern.p = "id"
  THEN IF pattern.name = "_" THEN Matched(st, TRUE)
       ELSE Matched(Bind(st, pattern.name, value), TRUE)
  ELSE IF st.ev = "match_recursive"
  THEN CASE pattern.p = "list" ->
              IF value.t # "list" THEN Matched(st, FALSE)
              ELSE IF Len(pattern.items) > Len(value.v) THEN Matched(st, FALSE)
              ELSE MatchItems(pattern.items, value.v, 1, st)
         [] pattern.p = "object" ->
              IF value.t # "dict" THEN Matched(st, FALSE)
              ELSE MatchSlots(pattern.slots, value, 1, st)
         [] pattern.p = "slot" ->
              LET Set(d) ==
                    IF d.exc # "" THEN MatchExc(d)
                    ELSE Matched(Bind(d.st, pattern.name, d.v), TRUE)
              IN  Set(SlotValue(pattern.default, value, st))
         [] pattern.p = "alias" ->
              LET Set(d) ==
                    IF d.exc # "" THEN MatchExc(d)
                    ELSE Matched(Bind(Bind(d.st, pattern.name, d.v), pattern.alias, d.v), TRUE)
              IN  Set(SlotValue(pattern.default, value, st))
         [] pattern.p = "rest" ->
              Matched(Bind(st, pattern.name, IF value = None THEN List(<<>>) ELSE value), TRUE)
         [] OTHER -> Matched(st, FALSE)
  ELSE CASE pattern.p = "list" ->
              IF value.t # "list" THEN Matched(st, FALSE)
              ELSE IF Len(pattern.items) > Len(value.v) THEN Matched(st, FALSE)
              ELSE LET Bound(b) == IF b.exc # "" THEN MatchExc(b) ELSE Matched(b.st, TRUE)
                   IN  Bound(_bind_values(pattern, value, st))
         [] pattern.p = "object" ->
              IF value.t # "dict" THEN Matched(st, FALSE)
              ELSE LET Bound(b) == Matched(b.st, b.exc = "")
                   IN  Bound(_bind_values(pattern, value, st))
         [] OTHER -> Matched(st, FALSE)

\* the nodes of ast_nodes.py
Literal(value) == [k |-> "Literal", value |-> value]
Identifier(name) == [k |-> "Identifier", name |-> name]
BinaryOp(left, op, right) == [k |-> "BinaryOp", left |-> left, op |-> op, right |-> right]
Declaration(name, expr) == [k |-> "Declaration", name |-> name, expr |-> expr]
Assignment(name, expr) == [k |-> "Assignment", name |-> name, expr |-> expr]
PrintOf(expr) == [k |-> "Print", expr |-> expr]
ReturnOf(expr) == [k |-> "Return", expr |-> expr]
Loop(var, start, end, body) ==
  [k |-> "Loop", var |-> var, start |-> start, end |-> end, body |-> body]
Async(body, name) == [k |-> "Async", body |-> body, name |-> name]
Await(name) == [k |-> "Await", name |-> name]
\* the nodes the evaluators use and ast_nodes.py does not define
Match(expr, cases) == [k |-> "Match", expr |-> expr, cases |-> cases]
Case(pattern, guard, body) == [pattern |-> pattern, guard |-> guard, body |-> body]
Routine(name, params, body) == [k |-> "Routine", name |-> name, params |-> params, body |-> body]
CallOf(name, args) == [k |-> "Call", name |-> name, args |-> args]
TryCatch(try_body, catch_body) ==
  [k |-> "TryCatch", try_body |-> try_body, catch_body |-> catch_body]
AsyncRoutine(name, params, body) ==
  [k |-> "AsyncRoutine", name |-> name, params |-> params, body |-> body]
AsyncLambda(params, body) == [k |-> "AsyncLambda", params |-> params, body |-> body]

\* the function objects and the coroutines of the versions with first-class
\* callables: async def fn(*args), and fn(*arg_values) before it has run
Function(params, body) == [t |-> "function", params |-> params, body |-> body]
Coroutine(function, args) == [t |-> "coroutine", fn |-> function, args |-> args]
Builtin(name) == [t |-> "builtin", name |-> name]
Arity(name) == IF name = "reduce" THEN 3 ELSE 2

\* the target of an Await: a task name or a list of targets
AName(name) == [a |-> "name", name |-> name]
AList(items) == [a |-> "list", items |-> items]

\* repr of an Await target
RECURSIVE AwaitRepr(_, _)
AwaitRepr(target, quoted) ==
  IF target.a = "name" THEN IF quoted THEN "'" \o target.name \o "'" ELSE target.name
  ELSE "[" \o Join([i \in 1..Len(target.items) |->
                      (IF i > 1 THEN ", " ELSE "") \o AwaitRepr(target.items[i], TRUE)]) \o "]"

visit_Identifier(node, st) ==
  IF node.name \in DOMAIN st.env THEN Ok(st, st.env[node.name])
  ELSE Exc(st, "Undefined variable")

\* eval_visitor.py has the ten operators; the later versions have the four
\* arithmetic ones and return None for every other
visit_BinaryOp(node, st) ==
  LET Right(l, r) ==
        IF r.exc # "" THEN r
        ELSE IF st.ev # "eval_visitor" /\ node.op \notin {"+", "-", "*", "/"} THEN Ok(r.st, None)
        ELSE ApplyOp(r.st, l.v, node.op, r.v)
      Left(l) == IF l.exc # "" THEN l ELSE Right(l, visit(node.right, l.st))
  IN  Left(visit(node.left, st))

\* for n, v in zip(names, values): self.env[n] = v, from index i; with check,
\* a name that is not bound raises
RECURSIVE ZipBind(_, _, _, _, _)
ZipBind(names, values, i, st, check) ==
  IF i > Len(names) \/ i > Len(values) THEN Ok(st, None)
  ELSE IF names[i].p = "list" THEN Exc(st, "unhashable type: 'list'")
  ELSE IF check /\ Key(names[i]) \notin DOMAIN st.env THEN Exc(st, "Variable not declared")
  ELSE ZipBind(names, values, i + 1, Bind(st, Key(names[i]), values[i]), check)

visit_Declaration(node, st) ==
  LET Store(e) ==
        CASE e.exc # "" -> e
          [] st.ev = "eval_visitor" ->
               IF node.name.p = "list" THEN Exc(e.st, "unhashable type: 'list'")
               ELSE Ok(Bind(e.st, Key(node.name), e.v), e.v)
          [] st.ev = "join" ->
               IF node.name.p # "list" THEN Ok(Bind(e.st, Key(node.name), e.v), e.v)
               ELSE IF e.v.t # "list" THEN Exc(e.st, "Parallel await did not return list/tuple")
               ELSE LET b == ZipBind(node.name.items, e.v.v, 1, e.st, FALSE)
                    IN  IF b.exc # "" THEN b ELSE Ok(b.st, e.v)
          [] OTHER ->
               LET Bound(b) == IF b.exc # "" THEN b ELSE Ok(b.st, e.v)
               IN  Bound(_bind_values(node.name, e.v, e.st))
  IN  Store(run_until_complete(visit(node.expr, st)))

visit_Assignment(node, st) ==
  LET Store(e) ==
        CASE e.exc # "" -> e
          [] st.ev = "eval_visitor" ->
               IF node.name.p = "list" THEN Exc(e.st, "unhashable type: 'list'")
               ELSE IF Key(node.name) \notin DOMAIN e.st.env
               THEN Exc(e.st, "Variable not declared")
               ELSE Ok(Bind(e.st, Key(node.name), e.v), e.v)
          [] st.ev = "join" ->
               IF node.name.p # "list"
               THEN IF Key(node.name) \notin DOMAIN e.st.env
                    THEN Exc(e.st, "Variable not declared")
                    ELSE Ok(Bind(e.st, Key(node.name), e.v), e.v)
               ELSE IF e.v.t # "list" THEN Exc(e.st, "Parallel await did not return list/tuple")
               ELSE LET Bound(b) == IF b.exc # "" THEN b ELSE Ok(b.st, e.v)
                    IN  Bound(ZipBind(node.name.items, e.v.v, 1, e.st, TRUE))
          [] OTHER ->
               LET Bound(b) == IF b.exc # "" THEN b ELSE Ok(b.st, e.v)
               IN  Bound(_bind_values(node.name, e.v, e.st))
  IN  Store(run_until_complete(visit(node.expr, st)))

visit_Print(node, st) ==
  LET Line(e) == IF e.exc # "" THEN e ELSE Ok(Write(e.st, PyStr(e.v, FALSE)), None)
  IN  Line(run_until_complete(visit(node.expr, st)))

\* eval_visitor evaluates the expression; the later versions return the node
visit_Return(node, st) ==
  IF st.ev = "eval_visitor" THEN visit(node.expr, st)
  ELSE Ok(st, [t |-> "Return", expr |-> node.expr])

\* the loop of visit_Loop from i
RECURSIVE LoopFrom(_, _, _, _)
LoopFrom(node, i, end, st) ==
  IF i >= end THEN Ok(st, None)
  ELSE LET Rest(b) == IF b.exc # "" THEN b ELSE LoopFrom(node, i + 1, end, b.st)
       IN  Rest(Block(node.body, Bind(st, node.var, Num(i))))

\* visit_Loop with range(start, end + 1)
visit_Loop_inclusive(node, st) ==
  LET Range(s, e) ==
        IF e.exc # "" THEN e
        ELSE IF s.v.t # "int" \/ e.v.t # "int"
        THEN Exc(e.st, "object cannot be interpreted as an integer")
        ELSE LoopFrom(node, s.v.v, e.v.v + 1, e.st)
      Start(s) == IF s.exc # "" THEN s ELSE Range(s, visit(node.end, s.st))
  IN  Start(visit(node.start, st))

\* visit_Loop: start and end are evaluated once, before the first iteration
visit_Loop(node, st) ==
  LET Range(s, e) ==
        IF e.exc # "" THEN e
        ELSE IF s.v.t # "int" \/ e.v.t # "int"
        THEN Exc(e.st, "object cannot be interpreted as an integer")
        ELSE LoopFrom(node, s.v.v, e.v.v, e.st)
      Start(s) == IF s.exc # "" THEN s ELSE Range(s, visit(node.end, s.st))
  IN  Start(visit(node.start, st))

\* visit_TryCatch with the catch_body run after the try_body in every case
visit_TryCatch_finally(node, st) ==
  LET Caught(t) ==
        IF t.exc = "" THEN Block(node.catch_body, t.st)
        ELSE Block(node.catch_body, Write(t.st, "[Caught Exception: " \o t.exc \o "]"))
  IN  Caught(Block(node.try_body, st))

\* visit_TryCatch: an exception of the try_body is printed and the catch_body
\* runs; an exception of the catch_body goes on to the caller
visit_TryCatch(node, st) ==
  LET Caught(t) ==
        IF t.exc = "" THEN Ok(t.st, None)
        ELSE Block(node.catch_body, Write(t.st, "[Caught Exception: " \o t.exc \o "]"))
  IN  Caught(Block(node.try_body, st))

\* the loop of visit_Match over the cases from index i, up to the case that
\* fires: fired is its index (0 when none does) and st the evaluator its body
\* starts with
RECURSIVE select_case(_, _, _, _)
select_case(cases, value, i, st) ==
  IF i > Len(cases) THEN [st |-> st, fired |-> 0, exc |-> ""]
  ELSE LET case == cases[i]
           Next_case(s) ==
             select_case(cases, value, i + 1,
                         IF st.ev = "match_recursive" THEN [s EXCEPT !.env = st.env] ELSE s)
           Guard(g) ==
             IF g.exc # "" THEN [st |-> g.st, fired |-> 0, exc |-> g.exc]
             ELSE IF truthy(g.v) THEN [st |-> g.st, fired |-> i, exc |-> ""]
             ELSE Next_case(g.st)
           Pattern(m) ==
             IF m.exc # "" THEN [st |-> m.st, fired |-> 0, exc |-> m.exc]
             ELSE IF ~m.ok THEN Next_case(m.st)
             ELSE IF st.ev = "match" \/ case.guard = NoNode
             THEN [st |-> m.st, fired |-> i, exc |-> ""]
             ELSE Guard(run_until_complete(visit(case.guard, m.st)))
       IN  Pattern(_match_pattern(case.pattern, value, st))

visit_Match(node, st) ==
  LET Body(c) ==
        IF c.exc # "" THEN Exc(c.st, c.exc)
        ELSE IF c.fired = 0 THEN Ok(c.st, None)
        ELSE Block(node.cases[c.fired].body, c.st)
      Cases(v) == IF v.exc # "" THEN v ELSE Body(select_case(node.cases, v.v, 1, v.st))
  IN  Cases(run_until_complete(visit(node.expr, st)))

visit_Routine(node, st) == Ok([st EXCEPT !.funcs = EnvSet(st.funcs, node.name, node)], None)

\* [a.accept(self) for a in args], from index i
RECURSIVE EvalArgs(_, _, _, _)
EvalArgs(args, i, acc, st) ==
  IF i > Len(args) THEN Ok(st, acc)
  ELSE LET Rest(a) == IF a.exc # "" THEN a ELSE EvalArgs(args, i + 1, Append(acc, a.v), a.st)
       IN  Rest(run_until_complete(visit(args[i], st)))

\* for pattern, value in zip(params, arg_values): self._bind_values(pattern, value)
RECURSIVE BindParams(_, _, _, _)
BindParams(params, values, i, st) ==
  IF i > Len(params) \/ i > Len(values) THEN Ok(st, None)
  ELSE LET Rest(b) == IF b.exc # "" THEN b ELSE BindParams(params, values, i + 1, b.st)
       IN  Rest(_bind_values(params[i], values[i], st))

\* the loop over the body of a routine or of an async block: the first Return
\* gives the result; with last, a statement's value is the result so far
RECURSIVE RunBody(_, _, _, _)
RunBody(body, result, last, st) ==
  IF body = <<>> THEN Ok(st, result)
  ELSE LET Rest(r) ==
             IF r.exc # "" THEN r
             ELSE IF r.v.t = "Return" THEN visit(r.v.expr, r.st)
             ELSE IF last
             THEN LET Awaited(a) ==
                        IF a.exc # "" THEN a ELSE RunBody(Tail(body), a.v, last, a.st)
                  IN  Awaited(await(r))
             ELSE RunBody(Tail(body), result, last, r.st)
       IN  Rest(visit(Head(body), st))

\* fn without its last assignment, self.env = call_env
fn_no_restore(params, body, args, st) ==
  LET call_env == st.env
      Exit(r) == IF r.exc # "" THEN r ELSE Ok(r.st, r.v)
      Body(b) == IF b.exc # "" THEN b ELSE Exit(RunBody(body, None, FALSE, b.st))
  IN  Body(BindParams(params, args, 1, st))

\* the body of a call, from call_env = self.env.copy() to self.env = call_env:
\* fn of visit_AsyncRoutine, and the same lines of visit_Call and _call_sync
fn(params, body, args, st) ==
  LET call_env == st.env
      Exit(r) == IF r.exc # "" THEN r ELSE Ok([r.st EXCEPT !.env = call_env], r.v)
      Body(b) == IF b.exc # "" THEN b ELSE Exit(RunBody(body, None, FALSE, b.st))
  IN  Body(BindParams(params, args, 1, st))

_call_sync(routine, args, st) ==
  LET Params(a) == IF a.exc # "" THEN a ELSE fn(routine.params, routine.body, a.v, a.st)
  IN  Params(EvalArgs(args, 1, <<>>, st))

\* _call_async creates the task of runner(), which the event loop runs later
_call_async(routine, args, st) ==
  Ok([st EXCEPT !.runners = Append(@, [routine |-> routine, args |-> args])],
     [t |-> "task", name |-> ""])

visit_AsyncRoutine(node, st) ==
  IF st.ev = "async_fn_params"
  THEN Ok([st EXCEPT !.async_funcs = EnvSet(@, node.name, node)], None)
  ELSE LET function == Function(node.params, node.body)
       IN  Ok([st EXCEPT !.async_funcs = EnvSet(@, node.name, function)], function)

visit_AsyncLambda(node, st) == Ok(st, Function(node.params, node.body))

\* fn(*arg_values) of visit_Call and fn(v) of the built-ins: the coroutine that
\* calling the object returns
call(function, args, st) ==
  IF function.t = "function" THEN Ok(st, Coroutine(function, args))
  ELSE IF function.t = "builtin"
  THEN IF Len(args) = Arity(function.name) THEN Ok(st, Coroutine(function, args))
       ELSE Exc(st, "missing or extra positional arguments")
  ELSE Exc(st, "object is not callable")

\* the look-up of visit_Call: the table the name is found in and its entry
\* there (table is "" when it is in none)
resolve(name, st) ==
  LET found(table, entry) == [table |-> table, fn |-> entry]
  IN  CASE st.ev = "combinators" ->
             IF name \in DOMAIN st.env /\ truthy(st.env[name]) THEN found("env", st.env[name])
             ELSE IF name \in DOMAIN st.funcs THEN found("funcs", st.funcs[name])
             ELSE IF name \in DOMAIN st.async_funcs
             THEN found("async_funcs", st.async_funcs[name])
             ELSE found("", None)
        [] OTHER ->
             IF name \in DOMAIN st.funcs THEN found("funcs", st.funcs[name])
             ELSE IF name \in DOMAIN st.async_funcs
             THEN found("async_funcs", st.async_funcs[name])
             ELSE IF st.ev = "hof" /\ name \in DOMAIN st.env
                       /\ st.env[name].t \in {"function", "builtin"}
             THEN found("env", st.env[name])
             ELSE found("", None)

\* visit_Call: eval_scheduler_fn_params.py and eval_scheduler_async_fn_params.py
\* call the routine; the later versions call the object they found
visit_Call(node, st) ==
  LET target == resolve(node.name, st)
      Object(a) == IF a.exc # "" THEN a ELSE call(target.fn, a.v, a.st)
  IN  IF target.table = "" THEN Exc(st, "Undefined function")
      ELSE IF st.ev \in {"hof", "combinators"} THEN Object(EvalArgs(node.args, 1, <<>>, st))
      ELSE IF target.table = "async_funcs" THEN _call_async(target.fn, node.args, st)
      ELSE _call_sync(target.fn, node.args, st)

\* eval_visitor runs the body on the spot; the later versions create a task
visit_Async(node, st) ==
  LET name == IF node.name # "" THEN node.name ELSE "task_id"
      End(b) == IF b.exc # "" THEN b ELSE Ok(Write(b.st, "[Async End]"), None)
  IN  IF st.ev = "eval_visitor" THEN End(Block(node.body, Write(st, "[Async Start]")))
      ELSE
      Ok([st EXCEPT !.tasks = EnvSet(st.tasks, name,
                                     [body |-> node.body, done |-> FALSE, result |-> None])],
         [t |-> "task", name |-> name])

\* _run_async_block without the test for Return: the body runs to its end and
\* the task has no result
_run_async_block_all(name, body, st) ==
  LET End(r) == IF r.exc # "" THEN r ELSE Ok(Write(r.st, "[Async " \o name \o " End]"), None)
  IN  End(Block(body, Write(st, "[Async " \o name \o " Start]")))

\* _run_async_block(name, body), the coroutine of the task name
_run_async_block(name, body, st) ==
  LET End(r) == IF r.exc # "" THEN r ELSE Ok(Write(r.st, "[Async " \o name \o " End]"), r.v)
  IN  End(RunBody(body, None, TRUE, Write(st, "[Async " \o name \o " Start]")))

\* the loop of _await_task over a list of names, from index i (the versions
\* that await one name after the other)
RECURSIVE AwaitItems(_, _, _, _)
AwaitItems(items, i, results, st) ==
  IF i > Len(items) THEN Ok(st, List(results))
  ELSE LET n == items[i]
           Rest(r) ==
             IF r.exc # "" THEN r ELSE AwaitItems(items, i + 1, Append(results, r.v), r.st)
       IN  IF n.a = "list" THEN Rest(_await_task(n, st))
           ELSE IF n.name \notin DOMAIN st.tasks
           THEN Rest(Ok(Write(st, "[Await " \o n.name \o "] (no such task)"), None))
           ELSE Rest(Ok(Write(Write(st, "[Await " \o n.name \o "] waiting..."),
                              "[Await " \o n.name \o "] complete"),
                        st.tasks[n.name].result))

\* _await_task with the results of the gather taken last name first
_await_task_last_first(name, st) ==
  IF name.a = "list"
  THEN IF st.ev = "join"
       THEN IF \E i \in 1..Len(name.items) : name.items[i].a = "list"
            THEN Exc(Write(st, "[Await " \o AwaitRepr(name, FALSE) \o "] waiting in parallel..."),
                     "unhashable type: 'list'")
            ELSE LET coros == SelectSeq(name.items, LAMBDA n : n.name \in DOMAIN st.tasks)
                     results == List([i \in 1..Len(coros) |-> st.tasks[coros[Len(coros) + 1 - i].name].result])
                 IN  Ok(Write(Write(st, "[Await " \o AwaitRepr(name, FALSE)
                                          \o "] waiting in parallel..."),
                              "[Await " \o AwaitRepr(name, FALSE) \o "] complete with values: "
                                \o PyStr(results, FALSE)),
                        results)
       ELSE AwaitItems(name.items, 1, <<>>, st)
  ELSE IF name.name \notin DOMAIN st.tasks
  THEN Ok(Write(st, "[Await " \o name.name \o "] (no such task)"), None)
  ELSE LET result == st.tasks[name.name].result
       IN  Ok(Write(Write(st, "[Await " \o name.name \o "] waiting..."),
                    "[Await " \o name.name \o "] complete with value: " \o PyStr(result, FALSE)),
              result)

\* _await_task: eval_scheduler_join.py gathers the tasks of the names that are
\* registered; the other versions await one name after the other
_await_task(name, st) ==
  IF name.a = "list"
  THEN IF st.ev = "join"
       THEN IF \E i \in 1..Len(name.items) : name.items[i].a = "list"
            THEN Exc(Write(st, "[Await " \o AwaitRepr(name, FALSE) \o "] waiting in parallel..."),
                     "unhashable type: 'list'")
            ELSE LET coros == SelectSeq(name.items, LAMBDA n : n.name \in DOMAIN st.tasks)
                     results == List([i \in 1..Len(coros) |-> st.tasks[coros[i].name].result])
                 IN  Ok(Write(Write(st, "[Await " \o AwaitRepr(name, FALSE)
                                          \o "] waiting in parallel..."),
                              "[Await " \o AwaitRepr(name, FALSE) \o "] complete with values: "
                                \o PyStr(results, FALSE)),
                        results)
       ELSE AwaitItems(name.items, 1, <<>>, st)
  ELSE IF name.name \notin DOMAIN st.tasks
  THEN Ok(Write(st, "[Await " \o name.name \o "] (no such task)"), None)
  ELSE LET result == st.tasks[name.name].result
       IN  Ok(Write(Write(st, "[Await " \o name.name \o "] waiting..."),
                    "[Await " \o name.name \o "] complete with value: " \o PyStr(result, FALSE)),
              result)

\* eval_visitor prints the target; the later versions return the coroutine
\* _await_task(node.name)
visit_Await(node, st) ==
  IF st.ev = "eval_visitor" THEN Ok(Write(st, "[Await " \o AwaitRepr(node.name, FALSE) \o "]"), None)
  ELSE Ok(st, Coroutine([t |-> "_await_task"], <<node.name>>))

\* the target of an Await as the value it is: a string or a list
RECURSIVE AwaitValue(_)
AwaitValue(target) ==
  IF target.a = "name" THEN Str(<<target.name>>)
  ELSE List([i \in 1..Len(target.items) |-> AwaitValue(target.items[i])])

\* _await_task of eval_scheduler_hof.py: the target is an expression
_await_expr(expr, st) ==
  IF "k" \in DOMAIN expr THEN await(visit(expr, st)) ELSE Ok(st, AwaitValue(expr))

\* _builtin_map and _builtin_filter: fn(v) for every v of arr, then the gather
\* of the coroutines, which runs them in this order
RECURSIVE gather(_, _, _, _, _)
gather(arr, function, i, results, st) ==
  IF i > Len(arr) THEN Ok(st, results)
  ELSE LET Rest(r) ==
             IF r.exc # "" THEN r
             ELSE gather(arr, function, i + 1, Append(results, r.v), r.st)
       IN  Rest(await(call(function, <<arr[i]>>, st)))

\* _builtin_reduce from index i
RECURSIVE reduce(_, _, _, _, _)
reduce(arr, function, i, acc, st) ==
  IF i > Len(arr) THEN Ok(st, acc)
  ELSE LET Rest(r) == IF r.exc # "" THEN r ELSE reduce(arr, function, i + 1, r.v, r.st)
       IN  Rest(await(call(function, <<acc, arr[i]>>, st)))

\* [v for v, keep in zip(arr, results) if keep], from index i
RECURSIVE keep(_, _, _)
keep(arr, results, i) ==
  IF i > Len(arr) THEN <<>>
  ELSE (IF truthy(results[i]) THEN <<arr[i]>> ELSE <<>>) \o keep(arr, results, i + 1)

_builtin(name, args, st) ==
  LET arr == args[1]
      function == args[2]
      Keep(r) == IF r.exc # "" THEN r ELSE Ok(r.st, List(keep(ToList(arr), r.v, 1)))
  IN  IF arr.t \notin {"list", "str", "dict"} THEN Exc(st, "object is not iterable")
      ELSE CASE name = "map" ->
                  LET Results(r) == IF r.exc # "" THEN r ELSE Ok(r.st, List(r.v))
                  IN  Results(gather(ToList(arr), function, 1, <<>>, st))
             [] name = "filter" -> Keep(gather(ToList(arr), function, 1, <<>>, st))
             [] name = "reduce" -> reduce(ToList(arr), function, 1, args[3], st)

\* await v: the coroutine v runs to its end
await(r) ==
  IF r.exc # "" \/ r.v.t # "coroutine" THEN r
  ELSE CASE r.v.fn.t = "_await_task" ->
              IF r.st.ev \in {"hof", "combinators"} THEN _await_expr(r.v.args[1], r.st)
              ELSE _await_task(r.v.args[1], r.st)
         [] r.v.fn.t = "function" -> fn(r.v.fn.params, r.v.fn.body, r.v.args, r.st)
         [] r.v.fn.t = "builtin" -> _builtin(r.v.fn.name, r.v.args, r.st)

\* self.loop.run_until_complete(v) if asyncio.iscoroutine(v) else v: the loop
\* runs the coroutine to its end, unless the loop is running already
run_until_complete(r) ==
  IF r.exc # "" \/ r.v.t # "coroutine" THEN r
  ELSE IF r.st.running THEN Exc(r.st, "This event loop is already running")
  ELSE LET Stopped(a) == [a EXCEPT !.st.running = FALSE]
       IN  Stopped(await([r EXCEPT !.st.running = TRUE, !.st.ran = TRUE]))

\* the versions that have routines and calls
Callers == {"fn_params", "async_fn_params", "hof", "combinators"}

\* node.accept(self)
visit(node, st) ==
  CASE node.k = "Literal" -> Ok(st, node.value)
    [] node.k = "Identifier" -> visit_Identifier(node, st)
    [] node.k = "BinaryOp" -> visit_BinaryOp(node, st)
    [] node.k = "Declaration" -> visit_Declaration(node, st)
    [] node.k = "Assignment" -> visit_Assignment(node, st)
    [] node.k = "Print" -> visit_Print(node, st)
    [] node.k = "Return" -> visit_Return(node, st)
    [] node.k = "Loop" -> visit_Loop(node, st)
    [] node.k = "TryCatch" -> visit_TryCatch(node, st)
    [] node.k = "Match" /\ st.ev \in {"match", "match_guards", "match_recursive"} ->
         visit_Match(node, st)
    [] node.k = "Routine" /\ st.ev \in {"fn_params", "async_fn_params"} -> visit_Routine(node, st)
    [] node.k = "Call" /\ st.ev \in Callers -> visit_Call(node, st)
    [] node.k = "AsyncRoutine" /\ st.ev \in Callers \ {"fn_params"} ->
         visit_AsyncRoutine(node, st)
    [] node.k = "AsyncLambda" /\ st.ev \in {"hof", "combinators"} -> visit_AsyncLambda(node, st)
    [] node.k = "Async" -> visit_Async(node, st)
    [] node.k = "Await" -> visit_Await(node, st)
    [] OTHER -> Exc(st, "No visit_" \o node.k \o " defined")

\* for stmt in body: stmt.accept(self)
Block(body, st) ==
  IF body = <<>> THEN Ok(st, None)
  ELSE LET Rest(r) == IF r.exc # "" THEN r ELSE Block(Tail(body), r.st)
       IN  Rest(run_until_complete(visit(Head(body), st)))

(***************************************************************************)
(* The state machine: one Executor whose caller first runs one of the      *)
(* opcode sequences of Programs and then up to MaxFree opcodes of any      *)
(* value.  Every state is reached from the constructor's state by execute  *)
(* calls alone.                                                            *)
(***************************************************************************)

\* how many opcodes the caller sends after the program
MaxFree == 1

\* the opcodes a caller sends: every key of the table, and bytes without an entry
Opcodes == OPCODE_KEYS \cup {1, 19, 143, 255}

\* n times the opcode op
Rep(op, n) == SubSeq([i \in 1..n |-> op], 1, n)

Programs ==
  { <<>>,
    <<64>>,                                \* HLT
    <<84, 15>>,                            \* EAX = 1; DIV with EBX = 0
    <<73>>,                                \* LOOP
    <<164>>,                               \* XCHG EAX, ESP: ESP = 0
    <<18, 166>>,                           \* DEC EAX; XCHG EAX, ESI: ESI = 0xFFFFFFFF
    <<46, 164, 48, 50>>,                   \* JMP rel8; XCHG EAX, ESP; CALL; RET
    <<84>> \o Rep(31, 8) \o <<116, 48, 50>>,  \* EAX = 0x100; JMP EAX; CALL; RET
    <<84, 31, 17, 86, 31, 17, 11, 120>>,   \* EAX = 7, EBX = 3; ADD; 0x78
    <<84, 86, 17, 17, 30, 164, 88, 164>>,  \* EBX = 1; ESP = 0xFFFFFFFC; POP; EAX = 2^32
    <<84, 93, 90, 31, 31>>,                \* EDX = 1, EAX = 4, EBX = 0
    <<84, 86, 31, 17, 31, 93, 89>>,        \* EBX = 1, EAX = 6; PUSH EAX; PUSH EDX
    <<67>>,                                \* STC
    <<12, 67>>,                            \* SUB: ZF = PF = 1; STC
    <<84, 31, 31, 93, 149>>,               \* POPF of 4: SF = 1
    <<84, 31, 31, 31, 93, 149>>,           \* POPF of 8: OF = 1
    <<84, 31, 17, 31, 31, 93, 149>>,       \* POPF of 12: SF = OF = 1
    <<84, 31, 17, 31, 31, 17, 93, 149>>,   \* POPF of 13: ZF = SF = OF = 1
    <<84, 31, 31, 31, 31, 17, 17, 93, 149>>,   \* POPF of 18: CF = PF = 1
    <<84, 31, 17, 86, 31, 17>>,            \* EAX = 7, EBX = 3
    <<84, 93, 90, 31, 17, 86, 31, 17>>,    \* EDX = 1, EAX = 7, EBX = 3
    <<84, 86, 93, 90>>,                    \* EAX = EBX = EDX = 1
    <<12, 67, 148>>,                       \* ZF = PF = CF = 1; PUSHF
    <<18, 148>>,                           \* SF = PF = 1; PUSHF
    <<164, 67, 148>>,                      \* ESP = 0, CF = 1; PUSHF
    <<84, 31, 31, 31, 93, 149, 151>>,      \* OF = 1; LAHF
    <<84, 31, 17, 93, 88, 86, 12>>,        \* ECX = 3, ZF = 1
    <<84, 93, 88>>,                        \* ECX = 1
    <<84, 93, 88, 86, 12>>,                \* ECX = 1, ZF = 1
    <<84, 31, 93, 88>> }                   \* ECX = 2

VARIABLES
  vm,      \* the executor's VM
  status,  \* what the last execute returned, or the exception it raised
  raised,  \* whether the last execute raised
  opcode,  \* the opcode of the last execute (-1 before the first)
  pre,     \* the VM before the last execute
  prog,    \* the opcodes of the program still to run
  steps,   \* opcodes sent after the program; for the driver, the calls of execute
  visitor,   \* the EvalVisitor
  todo,      \* the statements of the program's body still to run
  error,     \* the exception that ended the program ("" when none has)
  stmt,      \* the statement run last (NoNode before the first)
  before,    \* the EvalVisitor before that statement
  finished,  \* the names of the tasks that have run, in the order they ended
  enrolled,  \* the environment at the moment each task was created
  gathered,  \* the coroutines that the statements of the body have returned
  defined    \* the environment at the moment each routine or lambda was defined

vars == <<vm, status, raised, opcode, pre, prog, steps,
          visitor, todo, error, stmt, before, finished, enrolled, gathered, defined>>

\* how many times the loops of the programs go round at most
MaxLoop == 4

(***************************************************************************)
(* The evaluator's state machine: a driver builds an EvalVisitor of one    *)
(* version and hands it a program; each step is one statement of the       *)
(* program's body, and the event loop runs the pending tasks, in any       *)
(* order, when the statement awaits.                                       *)
(***************************************************************************)

\* EvalVisitor.__init__
EvalVisitor(version) ==
  [ev |-> version,
   env |-> IF version = "combinators"
           THEN [x \in {"map", "filter", "reduce"} |-> Builtin(x)]
           ELSE [x \in {} |-> None],
   funcs |-> [x \in {} |-> None], async_funcs |-> [x \in {} |-> None],
   tasks |-> [x \in {} |-> None], runners |-> <<>>, running |-> FALSE, ran |-> FALSE,
   out |-> <<>>]

Evaluators ==
  {"eval_visitor", "objects", "join", "nested", "match", "match_guards", "match_recursive",
   "fn_params", "async_fn_params", "hof", "combinators"}

N(n) == Literal(Num(n))
S(c) == Literal(Str(<< c >>))
kind == <<"k", "i", "n", "d">>
lhs == <<"l", "h", "s">>
rhs == <<"r", "h", "s">>
pair == Dict(<< <<kind, Str(<<"p", "a", "i", "r">>)>>, <<lhs, Num(1)>>, <<rhs, Num(2)>> >>)

\* run_trizzle.py: n = 5, a = 0, b = 1, and the loop that prints a
prog_trizzle ==
  << Declaration(PName("n"), N(5)),
     Declaration(PName("a"), N(0)),
     Declaration(PName("b"), N(1)),
     Loop("i", N(0), Identifier("n"),
          << PrintOf(Identifier("a")),
             Assignment(PName("a"), Identifier("b")),
             Assignment(PName("b"), BinaryOp(Identifier("a"), "+", Identifier("b"))) >>) >>

\* scenario S4: the first case lacks the key v, the second has the guard a < b
prog_match ==
  << Match(Literal(pair),
           << Case(ObjectPattern(<< ObjectSlot(kind, PName("kind"), "", NoNode),
                                    ObjectSlot(<<"v">>, PName("v"), "", NoNode) >>),
                   NoNode, << PrintOf(Identifier("v")) >>),
              Case(ObjectPattern(<< ObjectSlot(kind, PName("kind"), "", NoNode),
                                    ObjectSlot(lhs, PName("a"), "", NoNode),
                                    ObjectSlot(rhs, PName("b"), "", NoNode) >>),
                   BinaryOp(Identifier("a"), "<", Identifier("b")),
                   << PrintOf(BinaryOp(Identifier("a"), "+", Identifier("b"))) >>) >>),
     Assignment(PName("a"), N(5)) >>

\* a case whose guard is false, a case whose list pattern fails at its second
\* item, and a case that fires
prog_rollback ==
  << Declaration(PName("v"), Literal(List(<<Num(1), Num(2)>>))),
     Match(Identifier("v"),
           << Case(PName("x"), BinaryOp(Identifier("x"), "==", N(0)), << PrintOf(N(1)) >>),
              Case(PList(<<PName("y"), PList(<<PName("z")>>)>>), NoNode, << PrintOf(N(2)) >>),
              Case(PName("w"), NoNode, << PrintOf(Identifier("w")) >>) >>) >>

\* a case whose guard is falsy before the case that fires
prog_guards ==
  << Declaration(PName("v"), N(3)),
     Match(Identifier("v"),
           << Case(PName("x"), BinaryOp(Identifier("x"), "-", N(3)), << PrintOf(N(1)) >>),
              Case(PName("w"), BinaryOp(Identifier("w"), "-", N(2)),
                   << PrintOf(Identifier("w")) >>) >>),
     PrintOf(Identifier("v")) >>

\* a guard that reads the name bound by the pattern of an earlier case
prog_leak ==
  << Match(N(3),
           << Case(PName("x"), BinaryOp(Identifier("x"), "-", N(3)), << PrintOf(N(1)) >>),
              Case(PName("w"), Identifier("x"), << PrintOf(N(2)) >>) >>),
     PrintOf(N(0)) >>

\* a Match none of whose cases fires: a falsy guard and a pattern that fails
prog_nofire ==
  << Declaration(PName("v"), N(3)),
     Match(Identifier("v"),
           << Case(PName("x"), BinaryOp(Identifier("x"), "-", N(3)), << PrintOf(N(1)) >>),
              Case(PList(<<PName("y")>>), NoNode, << PrintOf(N(2)) >>) >>),
     PrintOf(Identifier("v")) >>

\* a routine or a lambda that reads a name of its definition site, called
\* after the name has been declared anew; define is the statement that defines f
prog_closure(define) ==
  << Declaration(PName("g"), N(1)),
     define,
     Declaration(PName("g"), N(2)),
     Declaration(PName("r"), CallOf("f", << N(10) >>)),
     PrintOf(Identifier("r")) >>
adder == << ReturnOf(BinaryOp(Identifier("p"), "+", Identifier("g"))) >>

\* a routine whose body raises after it has declared a local, called in a
\* TryCatch; define is the statement that defines f
prog_raise(define) ==
  << Declaration(PName("g"), N(1)),
     define,
     TryCatch(<< CallOf("f", << N(3) >>) >>, << PrintOf(S("c")) >>),
     PrintOf(Identifier("g")) >>
divider == << Declaration(PName("loc"), N(7)), PrintOf(BinaryOp(N(1), "/", N(0))) >>

\* scenario S3, with a third task and a name without a task
Task(name, n) == Async(<< ReturnOf(N(n)) >>, name)
prog_await(names) ==
  << Task("A", 1), Task("B", 2), Task("C", 3),
     Declaration(PList(<<PName("x"), PName("y")>>), Await(names)),
     PrintOf(BinaryOp(Identifier("x"), "+", Identifier("y"))) >>

AwaitTargets ==
  << AList(<<AName("A"), AName("B")>>),
     AList(<<AName("C"), AName("A"), AName("B")>>),
     AList(<<AName("A"), AName("X"), AName("B")>>),
     AList(<<AName("B"), AList(<<AName("X"), AName("A")>>)>>) >>

prog_await_one == << Task("A", 1), Declaration(PName("r"), Await(AName("X"))),
                     Declaration(PName("q"), Await(AName("A"))) >>

\* a task whose body goes on after its first Return, which reads a name that
\* is declared anew before the task runs
prog_return ==
  << Declaration(PName("g"), N(1)),
     Async(<< PrintOf(S("a")), ReturnOf(Identifier("g")), PrintOf(S("b")), ReturnOf(N(9)) >>,
           "A"),
     Task("B", 2),
     Declaration(PName("g"), N(5)),
     Declaration(PList(<<PName("x"), PName("y")>>), Await(AList(<<AName("A"), AName("B")>>))),
     PrintOf(BinaryOp(Identifier("x"), "+", Identifier("y"))) >>

\* a task created after the last statement that awaits
prog_unawaited ==
  << Task("A", 1), Declaration(PName("r"), Await(AName("A"))), Task("B", 2),
     PrintOf(Identifier("r")) >>

\* a task that reads a name its block writes after it has created the task,
\* and a task that writes a name the other reads
prog_isolation ==
  << Declaration(PName("g"), N(1)),
     Async(<< ReturnOf(Identifier("g")) >>, "A"),
     Async(<< Declaration(PName("g"), N(3)), ReturnOf(N(0)) >>, "B"),
     Declaration(PName("g"), N(2)),
     Declaration(PName("r"), Await(AName("A"))),
     PrintOf(Identifier("r")) >>

\* a routine with a parameter and a local that assigns a name of its caller
prog_call ==
  << Declaration(PName("g"), N(10)),
     Routine("f", << PName("p") >>,
             << Declaration(PName("loc"), BinaryOp(Identifier("p"), "+", Identifier("g"))),
                Assignment(PName("g"), N(99)),
                ReturnOf(BinaryOp(Identifier("loc"), "*", Identifier("g"))) >>),
     Declaration(PName("r"), CallOf("f", << N(1) >>)),
     PrintOf(Identifier("r")),
     CallOf("f", << Identifier("r") >>) >>

\* a name in the table of the routines and in the table of the async routines
prog_both ==
  << Routine("f", <<>>, << ReturnOf(N(1)) >>),
     AsyncRoutine("f", <<>>, << ReturnOf(N(2)) >>),
     Declaration(PName("r"), CallOf("f", <<>>)),
     PrintOf(Identifier("r")) >>

\* a name in the table of the async routines and in the environment
prog_shadow ==
  << AsyncRoutine("f", <<>>, << ReturnOf(N(2)) >>),
     Declaration(PName("f"), AsyncLambda(<<>>, << ReturnOf(N(3)) >>)),
     Declaration(PName("r"), CallOf("f", <<>>)),
     PrintOf(Identifier("r")) >>

\* a name in the environment only, and a name that is nowhere
prog_lambda ==
  << Declaration(PName("d"), AsyncLambda(<< PName("x") >>,
                                         << ReturnOf(BinaryOp(Identifier("x"), "+", N(1))) >>)),
     Declaration(PName("r"), CallOf("d", << N(1) >>)),
     PrintOf(Identifier("r")),
     Declaration(PName("u"), CallOf("h", <<>>)) >>

\* calls that no statement waits for, before a task and its await
prog_calls ==
  << AsyncRoutine("f", << PName("p") >>, << PrintOf(Identifier("p")) >>),
     CallOf("f", << N(1) >>),
     Task("A", 1),
     Declaration(PName("r"), Await(AName("A"))),
     CallOf("f", << N(2) >>),
     PrintOf(Identifier("r")) >>

\* the built-in combinators over a list
prog_combinators ==
  << Declaration(PName("d"), AsyncLambda(<< PName("x") >>,
                                         << ReturnOf(BinaryOp(Identifier("x"), "-", N(1))) >>)),
     Declaration(PName("add"),
                 AsyncLambda(<< PName("x"), PName("y") >>,
                             << ReturnOf(BinaryOp(Identifier("x"), "+", Identifier("y"))) >>)),
     Declaration(PName("l"), Literal(List(<< Num(1), Num(2), Num(3) >>))),
     PrintOf(CallOf("map", << Identifier("l"), Identifier("d") >>)),
     PrintOf(CallOf("filter", << Identifier("l"), Identifier("d") >>)),
     PrintOf(CallOf("reduce", << Identifier("l"), Identifier("add"), N(0) >>)),
     AsyncRoutine("map", << PName("x"), PName("y") >>, << ReturnOf(N(0)) >>),
     Declaration(PName("r"), CallOf("map", << Identifier("l"), Identifier("d") >>)) >>

\* a TryCatch whose second statement divides by n, and one whose catch_body
\* raises in its turn
prog_try(n) ==
  << Declaration(PName("n"), N(n)),
     TryCatch(<< PrintOf(S("a")), PrintOf(BinaryOp(N(6), "/", Identifier("n"))), PrintOf(S("b")) >>,
              << PrintOf(S("c")), PrintOf(Identifier("n")) >>),
     TryCatch(<< PrintOf(Identifier("n")), PrintOf(Identifier("u")) >>,
              << PrintOf(S("d")), PrintOf(Identifier("v")), PrintOf(S("e")) >>),
     PrintOf(S("f")) >>

\* a loop whose body assigns its variable and the names its start and its end
\* came from
prog_loop(first, last) ==
  << Declaration(PName("s"), N(first)),
     Declaration(PName("e"), N(last)),
     Loop("i", Identifier("s"), Identifier("e"),
          << PrintOf(Identifier("i")),
             Assignment(PName("i"), N(0)),
             Assignment(PName("s"), N(7)),
             Assignment(PName("e"), N(0)) >>),
     PrintOf(Identifier("s")) >>

\* declarations and assignments to bound and to unbound names
prog_names ==
  << Declaration(PName("x"), N(1)),
     Declaration(PName("x"), N(2)),
     Assignment(PName("x"), N(3)),
     Assignment(PName("y"), N(4)) >>

prog_lists ==
  << Declaration(PName("a"), N(0)),
     Assignment(PList(<<PName("a"), PName("zz")>>), Literal(List(<<Num(1), Num(2)>>))) >>

\* the patterns and the values of the declarations that destructure
Patterns ==
  << PName("a"),
     PList(<<PName("a"), PName("b")>>),
     PList(<<PName("a"), PName("b"), PName("c")>>),
     PList(<<PName("a"), PList(<<PName("b")>>)>>),
     PList(<<PList(<<PName("a"), PName("b")>>), PList(<<PName("c")>>)>>),
     PList(<<PName("a"), RestSlot("r"), PName("c")>>),
     PList(<<PName("a"), DestructureSlot("b", N(9))>>) >>

BindValues ==
  << Num(1),
     List(<<Num(1), Num(2)>>),
     List(<<Num(1), List(<<Num(2)>>)>>),
     List(<<List(<<Num(1), Num(2)>>), Num(3)>>),
     List(<<Num(1)>>) >>

prog_destructure(pattern, value) ==
  << Declaration(PName("c"), N(0)), Declaration(pattern, Literal(value)) >>

\* a Match whose list pattern has a RestSlot, against lists of three and of
\* one value
prog_rest ==
  << Match(Literal(List(<<Num(1), Num(2), Num(3)>>)),
           << Case(PList(<<PName("h"), RestSlot("r")>>), NoNode,
                   << PrintOf(Identifier("h")) >>) >>),
     Match(Literal(List(<<Num(1)>>)),
           << Case(PList(<<PName("h"), RestSlot("r")>>), NoNode,
                   << PrintOf(Identifier("h")) >>) >>) >>

\* a Match whose list pattern is longer than the value, with and without a
\* default at the missing position
prog_short ==
  << Match(Literal(List(<<Num(1)>>)),
           << Case(PList(<<PName("a"), PName("b")>>), NoNode, << PrintOf(N(1)) >>),
              Case(PList(<<PName("a"), DestructureSlot("b", N(9))>>), NoNode,
                   << PrintOf(Identifier("b")) >>),
              Case(PName("w"), NoNode, << PrintOf(N(3)) >>) >>) >>

\* object patterns whose key v is absent from the value, with and without a
\* default
absent == <<"v">>
prog_keys ==
  << Declaration(ObjectPattern(<< ObjectSlot(lhs, PName("a"), "", NoNode),
                                  ObjectSlot(absent, PName("v"), "", N(7)) >>),
                 Literal(pair)),
     Match(Literal(pair),
           << Case(ObjectPattern(<< ObjectSlot(absent, PName("m"), "", N(8)) >>), NoNode,
                   << PrintOf(Identifier("m")) >>) >>),
     Declaration(ObjectPattern(<< ObjectSlot(absent, PName("u"), "", NoNode) >>),
                 Literal(pair)),
     PrintOf(Identifier("u")) >>

\* the programs of the drivers
Bodies ==
  << prog_trizzle, prog_match, prog_rollback, prog_guards, prog_await_one, prog_call,
     prog_names, prog_lists, prog_unawaited, prog_isolation, prog_both, prog_shadow,
     prog_lambda, prog_calls, prog_combinators, prog_try(0), prog_try(2), prog_rest,
     prog_short, prog_keys, prog_leak, prog_nofire, prog_return,
     prog_closure(Routine("f", << PName("p") >>, adder)),
     prog_closure(AsyncRoutine("f", << PName("p") >>, adder)),
     prog_closure(Declaration(PName("f"), AsyncLambda(<< PName("p") >>, adder))),
     prog_raise(Routine("f", << PName("p") >>, divider)),
     prog_raise(AsyncRoutine("f", << PName("p") >>, divider)) >>
    \o [i \in 1..Len(AwaitTargets) |-> prog_await(AwaitTargets[i])]
    \o [i \in 1..(Len(Patterns) * Len(BindValues)) |->
          prog_destructure(Patterns[((i - 1) \div Len(BindValues)) + 1],
                           BindValues[((i - 1) % Len(BindValues)) + 1])]
    \o [i \in 1..((MaxLoop + 1) * (MaxLoop + 1)) |->
          prog_loop((i - 1) \div (MaxLoop + 1), (i - 1) % (MaxLoop + 1))]

\* the names a statement awaits
RECURSIVE AwaitNames(_)
AwaitNames(target) ==
  IF target.a = "name" THEN {target.name}
  ELSE UNION {AwaitNames(target.items[i]) : i \in 1..Len(target.items)}

Awaits(node) ==
  IF node.k \in {"Declaration", "Assignment", "Print"} /\ node.expr.k = "Await"
  THEN AwaitNames(node.expr.name) ELSE {}

Pending(tasks) == {n \in DOMAIN tasks : ~tasks[n].done}

evars == <<visitor, todo, error, stmt, before, finished, enrolled, gathered, defined>>

\* no evaluator at work
Idle ==
  /\ visitor = EvalVisitor("eval_visitor")
  /\ todo = <<>>
  /\ error = ""
  /\ stmt = NoNode
  /\ before = EvalVisitor("eval_visitor")
  /\ finished = <<>>
  /\ enrolled = [x \in {} |-> None]
  /\ gathered = <<>>
  /\ defined = [x \in {} |-> None]

Init ==
  /\ vm = VM(MemSize)
  /\ status = ""
  /\ raised = FALSE
  /\ opcode = -1
  /\ pre = VM(MemSize)
  /\ prog \in Programs
  /\ steps = 0
  /\ Idle

\* one call ex.execute(op), e what it leaves behind
Call(op, e) ==
  /\ vm' = e.vm
  /\ status' = e.status
  /\ raised' = e.raised
  /\ opcode' = op
  /\ pre' = vm
  /\ UNCHANGED evars

\* the next opcode of the program
RunProgram ==
  /\ prog # <<>>
  /\ Call(Head(prog), execute(vm, Head(prog)))
  /\ prog' = Tail(prog)
  /\ steps' = steps

\* any opcode, once the program is through
RunAny ==
  /\ prog = <<>>
  /\ steps < MaxFree
  /\ \E op \in Opcodes : Call(op, execute(vm, op))
  /\ prog' = prog
  /\ steps' = steps + 1

Next == RunProgram \/ RunAny

Spec == Init /\ [][Next]_vars

InitEval ==
  /\ vm = VM(MemSize)
  /\ status = ""
  /\ raised = FALSE
  /\ opcode = -1
  /\ pre = VM(MemSize)
  /\ prog = <<>>
  /\ steps = 0
  /\ \E version \in Evaluators : visitor = EvalVisitor(version) /\ before = EvalVisitor(version)
  /\ \E i \in 1..Len(Bodies) : todo = Bodies[i]
  /\ error = ""
  /\ stmt = NoNode
  /\ finished = <<>>
  /\ enrolled = [x \in {} |-> None]
  /\ gathered = <<>>
  /\ defined = [x \in {} |-> None]

\* the event loop runs: a statement of the body awaits, or the body has ended
\* and visit_Program gathers the coroutines its statements returned
Looping ==
  /\ error = ""
  /\ \/ todo # <<>> /\ Awaits(Head(todo)) # {}
     \/ todo = <<>> /\ gathered # <<>>

\* the next statement of the body; a statement that runs the event loop
\* (run_until_complete) finds the tasks created so far ahead of its coroutine,
\* and a coroutine it returns is kept for the gather at the end of the body
\* the name a statement defines a routine or a lambda under ("" when it
\* defines none) and the parameters and the body it defines
DefName(node) ==
  CASE node.k \in {"Routine", "AsyncRoutine"} -> node.name
    [] node.k = "Declaration" /\ node.name.p = "id" /\ node.expr.k = "AsyncLambda" ->
         node.name.name
    [] OTHER -> ""
DefNode(node) == IF node.k = "Declaration" THEN node.expr ELSE node

Step ==
  /\ todo # <<>>
  /\ error = ""
  /\ \E r \in {visit(Head(todo), [visitor EXCEPT !.ran = FALSE])} :
       /\ r.st.ran => Pending(visitor.tasks) = {} /\ visitor.runners = <<>>
       /\ visitor' = r.st
       /\ error' = r.exc
       /\ gathered' = IF r.v.t = "coroutine" THEN Append(gathered, r.v) ELSE gathered
  /\ stmt' = Head(todo)
  /\ before' = visitor
  /\ todo' = Tail(todo)
  /\ enrolled' = IF Head(todo).k = "Async" /\ visitor.ev # "eval_visitor"
                 THEN EnvSet(enrolled, Head(todo).name, visitor.env)
                 ELSE enrolled
  /\ defined' = IF DefName(Head(todo)) # ""
                THEN EnvSet(defined, DefName(Head(todo)),
                            [env |-> visitor.env, params |-> DefNode(Head(todo)).params,
                             body |-> DefNode(Head(todo)).body,
                             again |-> DefName(Head(todo)) \in DOMAIN defined])
                ELSE defined
  /\ UNCHANGED <<finished, vm, status, raised, opcode, pre, prog, steps>>

\* the event loop runs a pending task to its end
RunTask ==
  /\ Looping
  /\ \E name \in Pending(visitor.tasks) :
       \E r \in {_run_async_block(name, visitor.tasks[name].body,
                                  [visitor EXCEPT !.running = TRUE])} :
         /\ visitor' = [r.st EXCEPT !.tasks[name].done = TRUE, !.tasks[name].result = r.v,
                                    !.running = FALSE]
         /\ finished' = Append(finished, name)
  /\ UNCHANGED <<todo, error, stmt, before, enrolled, gathered, defined, vm, status, raised, opcode, pre,
                 prog, steps>>

\* runner() of _call_async: the arguments, then the body in a copy of the
\* environment
runner(routine, args, st) ==
  LET Params(a) == IF a.exc # "" THEN a ELSE fn(routine.params, routine.body, a.v, a.st)
  IN  Params(EvalArgs(args, 1, <<>>, st))

\* the event loop runs the task of an asynchronous call to its end
RunCall ==
  /\ Looping
  /\ visitor.runners # <<>>
  /\ \E r \in {runner(Head(visitor.runners).routine, Head(visitor.runners).args,
                      [visitor EXCEPT !.running = TRUE, !.runners = Tail(@)])} :
       visitor' = [r.st EXCEPT !.running = FALSE]
  /\ UNCHANGED <<todo, error, stmt, before, finished, enrolled, gathered, defined, vm, status,
                 raised, opcode, pre, prog, steps>>

\* asyncio.gather(*results): the coroutines run one after the other
RECURSIVE GatherFrom(_, _, _)
GatherFrom(coros, i, st) ==
  IF i > Len(coros) THEN Ok(st, None)
  ELSE LET Rest(r) == IF r.exc # "" THEN r ELSE GatherFrom(coros, i + 1, r.st)
       IN  Rest(await(Ok(st, coros[i])))

\* the end of visit_Program: self.loop.run_until_complete(asyncio.gather(*results))
Gather ==
  /\ todo = <<>>
  /\ error = ""
  /\ gathered # <<>>
  /\ Pending(visitor.tasks) = {}
  /\ visitor.runners = <<>>
  /\ \E r \in {GatherFrom(gathered, 1, [visitor EXCEPT !.running = TRUE])} :
       /\ visitor' = [r.st EXCEPT !.running = FALSE]
       /\ error' = r.exc
  /\ gathered' = <<>>
  /\ UNCHANGED <<todo, stmt, before, finished, enrolled, defined, vm, status, raised, opcode,
                 pre, prog, steps>>

NextEval == Step \/ RunTask \/ RunCall \/ Gather

SpecEval == InitEval /\ [][NextEval]_vars

(***************************************************************************)
(* The command-line driver: main() builds one Executor and goes through    *)
(* the tokens of its command line, one iteration of its loop per step.     *)
(***************************************************************************)

\* how many tokens the command line has at most
MaxArgs == 3

HexDigits ==
  << "0", "1", "2", "3", "4", "5", "6", "7", "8", "9", "a", "b", "c", "d", "e", "f" >>

\* the value of a hex digit of either case (-1 for another character)
digit(c) ==
  IF \E i \in 1..16 : HexDigits[i] = c THEN (CHOOSE i \in 1..16 : HexDigits[i] = c) - 1
  ELSE IF \E i \in 11..16 : <<"A", "B", "C", "D", "E", "F">>[i - 10] = c
  THEN (CHOOSE i \in 11..16 : <<"A", "B", "C", "D", "E", "F">>[i - 10] = c) - 1
  ELSE -1

\* the digits of a token from index i, most significant first
RECURSIVE digits(_, _, _)
digits(token, i, acc) ==
  IF i > Len(token) THEN [ok |-> TRUE, value |-> acc]
  ELSE IF digit(token[i]) < 0 THEN [ok |-> FALSE, value |-> 0]
  ELSE digits(token, i + 1, 16 * acc + digit(token[i]))

\* int(token, 16): hex digits after an optional prefix 0x; ok is FALSE when it
\* raises ValueError
int16(token) ==
  LET prefixed == Len(token) >= 2 /\ token[1] = "0" /\ token[2] \in {"x", "X"}
      first == IF prefixed THEN 3 ELSE 1
  IN  IF first > Len(token) THEN [ok |-> FALSE, value |-> 0] ELSE digits(token, first, 0)

\* the tokens of the command lines
Tokens ==
  { <<"4", "0">>, <<"0", "x", "1", "1">>, <<"0", "X", "5", "4">>, <<"F", "f">>, <<"z", "z">>,
    <<"0", "x">> }

RECURSIVE Lines(_)
Lines(n) ==
  IF n = 0 THEN {<<>>} ELSE Lines(n - 1) \cup {Append(l, t) : l \in Lines(n - 1), t \in Tokens}

\* ex = Executor(trace=args.trace), with args.opcodes in prog
InitMain ==
  /\ vm = VM(MemSize)
  /\ status = ""
  /\ raised = FALSE
  /\ opcode = -1
  /\ pre = VM(MemSize)
  /\ prog \in Lines(MaxArgs)
  /\ steps = 0
  /\ Idle

\* an iteration of the loop of main for a token that int accepts: the opcode
\* is executed, and the loop ends when the VM is halted afterwards (an
\* exception of execute that is not a ValueError ends main)
ExecuteToken ==
  /\ prog # <<>>
  /\ int16(Head(prog)).ok
  /\ \E e \in {execute(vm, int16(Head(prog)).value)} :
       /\ Call(int16(Head(prog)).value, e)
       /\ prog' = IF e.vm.halted \/ e.raised THEN <<>> ELSE Tail(prog)
  /\ steps' = steps + 1

\* an iteration for a token that int refuses: the except clause prints
\* Invalid opcode and the loop goes on with the next token
InvalidToken ==
  /\ prog # <<>>
  /\ ~int16(Head(prog)).ok
  /\ status' = "Invalid opcode"
  /\ prog' = Tail(prog)
  /\ UNCHANGED <<vm, raised, opcode, pre, steps>>
  /\ UNCHANGED evars

NextMain == ExecuteToken \/ InvalidToken

SpecMain == InitMain /\ [][NextMain]_vars

(***************************************************************************)
(* The properties.  opcode, pre, vm, status and raised describe the last   *)
(* call execute(opcode): pre is the VM before it and vm the VM after it.   *)
(***************************************************************************)

\* some call has been made
Called == opcode # -1

\* registers, flags and memory are as before the last call
Unchanged == vm.registers = pre.registers /\ vm.flags = pre.flags /\ vm.memory = pre.memory

\* C1: once halted is set (by HLT or by a division by zero), every later call
\* execute(opcode) is a no-op: registers, flags and memory are after the call
\* what they were before it, whatever the opcode
C1_HaltedNoOp == (Called /\ pre.halted) => Unchanged

\* C2: execute of an opcode that has no entry in the dispatch table returns
\* the status Unknown opcode and leaves registers, flags, memory and halted
\* unchanged: for the call just made, and for every byte without an entry
\* were it sent now
C2_UnknownOpcode ==
  /\ (Called /\ opcode \notin OPCODE_KEYS) =>
       ~raised /\ status = "Unknown opcode" /\ Unchanged /\ vm.halted = pre.halted
  /\ \A op \in (0..255) \ OPCODE_KEYS : execute(vm, op) = Return(vm, "Unknown opcode")

\* an opcode without an entry was sent to a VM that a program has worked on
C2_Witness ==
  /\ Called /\ opcode \notin OPCODE_KEYS /\ status = "Unknown opcode"
  /\ pre.registers # VM(MemSize).registers

\* a 32-bit value of each length in bytes
StackValues ==
  {Py(0), Lit(<<7>>), Lit(<<52, 18>>), Lit(<<86, 52, 18>>), Lit(<<120, 86, 52, 18>>),
   Lit(<<255, 255, 255, 255>>)}

\* C3: the stack law: for every 32-bit value v and the registers as they are,
\* push(v) followed by pop() returns v, puts ESP back to what it was before
\* the push, and changes no memory byte outside the four bytes [ESP - 4, ESP)
C3_StackLaw ==
  \A v \in StackValues : \A p \in {push(vm, v)} : \A q \in {pop(p.vm)} :
    \A lo \in {IntSub(vm.registers.ESP, Four)} :
      /\ ~p.raised
      /\ q.value = v
      /\ q.vm.registers.ESP = vm.registers.ESP
      /\ Len(q.vm.memory) = Len(vm.memory)
      /\ \A i \in 1..Len(vm.memory) :
           (IntLess(Py(i - 1), lo) \/ ~IntLess(Py(i - 1), vm.registers.ESP))
             => q.vm.memory[i] = vm.memory[i]

\* ADD, SUB, MUL, IMUL, DIV, IDIV, INC, DEC on EAX (0x0B .. 0x12) and MUL,
\* IMUL, DIV, IDIV on EDX:EAX (0xAA .. 0xAD)
ArithmeticOpcodes == (11..18) \cup (170..173)

\* DIV and IDIV: 0x0F, 0x10, 0xAC, 0xAD
DivOpcodes == {15, 16, 172, 173}

\* C4: the flag law: after an arithmetic handler (ADD, SUB, MUL, IMUL, DIV and
\* IDIV with a divisor other than 0, INC, DEC) completes, ZF = 1 exactly when
\* EAX = 0, SF is bit 31 of EAX, and PF = 1 exactly when the low 8 bits of EAX
\* have an even number of bits set
C4_FlagLaw ==
  (/\ Called /\ opcode \in ArithmeticOpcodes /\ ~raised
   /\ ~(opcode \in DivOpcodes /\ pre.registers.EBX = Py(0))) =>
    /\ (vm.flags.ZF = 1) <=> (vm.registers.EAX = Py(0))
    /\ vm.flags.SF = Bit(vm.registers.EAX, 31)
    /\ (vm.flags.PF = 1) <=> (PopCount(Dig(vm.registers.EAX, 1)) % 2 = 0)

C6_Totality == (Called /\ opcode \in OPCODE_KEYS) => ~raised

\* C7: the CALL/RET round trip: CALL rel32 (0x30) decreases ESP by 4, stores
\* the EIP from before the call as the 32-bit word at the new ESP and sets EIP
\* to that EIP + 4; RET (0x32) right after it puts EIP and ESP back to what
\* they were before the call
C7_CallRet ==
  [][(opcode = 48 /\ opcode' = 50) =>
       /\ ~raised /\ ~raised'
       /\ vm.registers.ESP = IntSub(pre.registers.ESP, Four)
       /\ read_mem(vm, vm.registers.ESP, 4) = pre.registers.EIP
       /\ vm.registers.EIP = IntAdd(pre.registers.EIP, Four)
       /\ vm'.registers.EIP = pre.registers.EIP
       /\ vm'.registers.ESP = pre.registers.ESP]_vars

\* C8: scenario S5: with EAX = 7 and EBX = 3, opcode 0x0B yields EAX = 10 with
\* ZF = 0 and SF = 0, and opcode 0x78 executed once after it makes EAX 11
C8_ScenarioS5 ==
  [][(/\ opcode = 11 /\ pre.registers.EAX = Lit(<<7>>) /\ pre.registers.EBX = Lit(<<3>>)
      /\ opcode' = 120) =>
       /\ vm.registers.EAX = Lit(<<10>>) /\ vm.flags.ZF = 0 /\ vm.flags.SF = 0
       /\ vm'.registers.EAX = Lit(<<11>>)]_vars

\* the Jcc opcodes: 0x36 .. 0x3D and 0x77 .. 0x88
JccOpcodes == (54..61) \cup (119..136)

\* the mnemonic of a Jcc opcode, after the handler the table binds to it
JccMnemonic(op) ==
  CASE op \in {54, 120, 133} -> "JE"
    [] op \in {55, 119, 134} -> "JNE"
    [] op \in {56, 129} -> "JS"
    [] op \in {57, 130} -> "JNS"
    [] op \in {58, 127} -> "JO"
    [] op \in {59, 128} -> "JNO"
    [] op \in {60, 135} -> "JB"
    [] op \in {61, 136} -> "JAE"
    [] op = 131 -> "JBE"
    [] op = 132 -> "JA"
    [] op = 121 -> "JL"
    [] op = 124 -> "JGE"
    [] op = 122 -> "JLE"
    [] op = 123 -> "JG"
    [] op = 125 -> "JP"
    [] op = 126 -> "JNP"

\* the table of conditions by mnemonic
JccCondition(m, f) ==
  CASE m = "JE" -> f.ZF = 1
    [] m = "JNE" -> f.ZF = 0
    [] m = "JS" -> f.SF = 1
    [] m = "JNS" -> f.SF = 0
    [] m = "JO" -> f.OF = 1
    [] m = "JNO" -> f.OF = 0
    [] m = "JB" -> f.CF = 1
    [] m = "JAE" -> f.CF = 0
    [] m = "JBE" -> f.CF = 1 \/ f.ZF = 1
    [] m = "JA" -> ~(f.CF = 1) /\ ~(f.ZF = 1)
    [] m = "JL" -> f.SF # f.OF
    [] m = "JGE" -> f.SF = f.OF
    [] m = "JLE" -> f.ZF = 1 \/ f.SF # f.OF
    [] m = "JG" -> ~(f.ZF = 1) /\ f.SF = f.OF
    [] m = "JP" -> f.PF = 1
    [] m = "JNP" -> f.PF = 0

C10_Registers32 ==
  \A r \in DOMAIN vm.registers : ~vm.registers[r].neg /\ Len(vm.registers[r].d) <= 4


(***************************************************************************)
(* The properties of the evaluator.                                        *)
(***************************************************************************)

\* the statement run last was run by a version that has a method for it
Visited(k) == stmt.k = k /\ error # "No visit_" \o k \o " defined"

\* the value the Match run last matched and the case its loop chose
MatchValue == visit(stmt.expr, before)
Selected == select_case(stmt.cases, MatchValue.v, 1, MatchValue.st)

\* C11: when the first k cases of a Match fail and case k+1 succeeds, the
\* environment the body of case k+1 starts with is the environment before the
\* Match extended by the bindings of the pattern of case k+1 only
C11_MatchRollback ==
  (Visited("Match") /\ MatchValue.exc = "" /\ Selected.exc = "" /\ Selected.fired > 0) =>
    SameEnv(Selected.st.env,
            _match_pattern(stmt.cases[Selected.fired].pattern, MatchValue.v,
                           MatchValue.st).st.env)

\* the names the pattern of the case that fired binds
FiredNames ==
  DOMAIN _match_pattern(stmt.cases[Selected.fired].pattern, MatchValue.v, MatchValue.st).st.env
    \ DOMAIN before.env

\* C12: the names bound by the pattern of the case that fires are scoped to
\* that case: once the Match statement has completed they are not defined in
\* the enclosing environment
C12_CaseScope ==
  (Visited("Match") /\ error = "" /\ MatchValue.exc = "" /\ Selected.fired > 0) =>
    FiredNames \cap DOMAIN visitor.env = {}

\* the identifier, alias and rest names that appear in a pattern
RECURSIVE PatternNames(_)
PatternNames(pattern) ==
  CASE pattern.p = "id" -> {pattern.name}
    [] pattern.p = "list" ->
         UNION {PatternNames(pattern.items[i]) : i \in 1..Len(pattern.items)}
    [] pattern.p = "object" ->
         UNION {PatternNames(pattern.slots[i].name) \cup ({pattern.slots[i].alias} \ {""}) :
                  i \in 1..Len(pattern.slots)}
    [] pattern.p = "alias" -> {pattern.name, pattern.alias}
    [] OTHER -> {pattern.name}

\* C13: binding a pattern to a value either succeeds and binds exactly the
\* names that appear in the pattern, or fails and leaves the environment as it
\* was before the attempt
C13_BinderTotality ==
  (Visited("Declaration") /\ stmt.expr.k = "Literal") =>
    IF error = ""
    THEN /\ DOMAIN visitor.env = DOMAIN before.env \cup PatternNames(stmt.name)
         /\ \A n \in DOMAIN before.env \ PatternNames(stmt.name) :
              Same(visitor.env[n], before.env[n])
    ELSE SameEnv(visitor.env, before.env)

\* C14: once a Call has completed normally, the environment of the caller is
\* the one it had before the call: the parameters and the names the body of
\* the routine declared or assigned are not visible to the caller
C14_CallScope ==
  /\ (Visited("Call") /\ error = "") => SameEnv(visitor.env, before.env)
  /\ (Visited("Declaration") /\ stmt.expr.k = "Call" /\ error = "") =>
       SameEnv(run_until_complete(visit(stmt.expr, before)).st.env, before.env)

\* a call has completed whose routine bound a parameter, declared a name and
\* assigned a name of its caller
C14_Witness ==
  /\ Visited("Call") /\ error = ""
  /\ stmt.name \in DOMAIN before.funcs
  /\ before.funcs[stmt.name].params # <<>>
  /\ \E i \in 1..Len(before.funcs[stmt.name].body) :
       before.funcs[stmt.name].body[i].k = "Declaration"
  /\ \E i \in 1..Len(before.funcs[stmt.name].body) :
       /\ before.funcs[stmt.name].body[i].k = "Assignment"
       /\ before.funcs[stmt.name].body[i].name.name \in DOMAIN before.env

\* the statement run last declared the names of an Await, in a version whose
\* Await takes the names of tasks
Awaited ==
  /\ Visited("Declaration") /\ stmt.expr.k = "Await"
  /\ before.ev \notin {"eval_visitor", "hof", "combinators"}
AwaitResult == run_until_complete(visit(stmt.expr, before))

\* the Await was of a flat list of names that all have a task
FlatRegistered ==
  /\ stmt.expr.name.a = "list"
  /\ \A i \in 1..Len(stmt.expr.name.items) :
       /\ stmt.expr.name.items[i].a = "name"
       /\ stmt.expr.name.items[i].name \in DOMAIN before.tasks

\* C15: awaiting a flat list of names of registered tasks gives the list whose
\* i-th element is the result of the task of the i-th name, whatever the order
\* the tasks ended in
C15_JoinOrder ==
  (Awaited /\ FlatRegistered) =>
    /\ AwaitResult.exc = ""
    /\ AwaitResult.v.t = "list"
    /\ Len(AwaitResult.v.v) = Len(stmt.expr.name.items)
    /\ \A i \in 1..Len(stmt.expr.name.items) :
         /\ before.tasks[stmt.expr.name.items[i].name].done
         /\ Same(AwaitResult.v.v[i], before.tasks[stmt.expr.name.items[i].name].result)

\* the gather of eval_scheduler_join.py has returned for three names whose
\* tasks ended in another order than the names'
C15_Witness ==
  /\ Awaited /\ FlatRegistered
  /\ before.ev = "join"
  /\ Len(stmt.expr.name.items) = 3
  /\ finished # [i \in 1..3 |-> stmt.expr.name.items[i].name]
  /\ \A i \in 1..3 : \E j \in 1..3 : finished[j] = stmt.expr.name.items[i].name

\* a result has the shape of the names awaited, with None at the names that
\* have no task
RECURSIVE Mirrors(_, _)
Mirrors(target, result) ==
  IF target.a = "name"
  THEN target.name \notin DOMAIN before.tasks => result = None
  ELSE /\ result.t = "list"
       /\ Len(result.v) = Len(target.items)
       /\ \A i \in 1..Len(target.items) : Mirrors(target.items[i], result.v[i])

\* C16: an Await of a name that has no task does not raise and gives None; in
\* a list of names, nested or not, the result has the shape and the length of
\* the list, with None at exactly the places of the names that have no task
C16_AwaitUnregistered ==
  Awaited => (AwaitResult.exc = "" /\ Mirrors(stmt.expr.name, AwaitResult.v))

\* C17: a Declaration whose target is already bound in the current scope
\* raises an error and does not overwrite the binding
C17_Redeclaration ==
  (Visited("Declaration") /\ PatternNames(stmt.name) \cap DOMAIN before.env # {}) =>
    (error # "" /\ SameEnv(visitor.env, before.env))

\* C18: an Assignment, to one name or to the names of a pattern, raises
\* "Variable not declared" when a name it would write is not bound, and then
\* writes no name at all
C18_AssignmentDeclared ==
  (Visited("Assignment") /\ ~(PatternNames(stmt.name) \subseteq DOMAIN before.env)) =>
    (error = "Variable not declared" /\ SameEnv(visitor.env, before.env))

\* the start and the end of the Loop run last, evaluated before it
LoopStart == visit(stmt.start, before).v.v
LoopEnd == visit(stmt.end, before).v.v

\* the Loop run last has a body that writes its variable first and nothing else
PrintsVariable ==
  /\ Visited("Loop") /\ error = ""
  /\ stmt.body[1] = PrintOf(Identifier(stmt.var))
  /\ \A i \in 2..Len(stmt.body) : stmt.body[i].k = "Assignment"

\* C19: Loop(i, s, e, body) evaluates s and e once and runs the body exactly
\* max(0, e - s) times, with i bound to s, s + 1, ..., e - 1 at the start of
\* the successive iterations, even when the body assigns to i
C19_LoopSemantics ==
  PrintsVariable =>
    visitor.out =
      before.out \o [n \in 1..Max(0, LoopEnd - LoopStart) |-> DecStr(LoopStart + n - 1)]

\* a loop of two iterations or more has run whose body assigns to its variable
\* and to the names of its start and its end
C19_Witness ==
  /\ PrintsVariable
  /\ LoopEnd - LoopStart >= 2
  /\ \E i \in 2..Len(stmt.body) : stmt.body[i].name = PName(stmt.var)
  /\ \E i \in 2..Len(stmt.body) : Identifier(stmt.body[i].name.name) = stmt.start
  /\ \E i \in 2..Len(stmt.body) : Identifier(stmt.body[i].name.name) = stmt.end

\* C20: scenario S1, the program of run_trizzle.py run by the EvalVisitor of
\* eval_visitor.py, writes exactly the lines 0, 1, 1, 2, 3, in that order
C20_ScenarioS1 ==
  (before.ev = "eval_visitor" /\ stmt.k = "Loop" /\ stmt = prog_trizzle[4]) =>
    (error = "" /\ visitor.out = <<"0", "1", "1", "2", "3">>)

\* C21: when the block of a program returns, every task a statement of its
\* body has enrolled has run to completion, the tasks that no statement
\* awaits included
C21_TasksDrained ==
  (todo = <<>> /\ gathered = <<>> /\ error = "" /\ stmt # NoNode) => Pending(visitor.tasks) = {}

\* the task that the event loop has just run
Ran == finished'[Len(finished')]

\* C22: the body of a task is evaluated against the environment as it was
\* when the task was created: it does not observe a binding that its block or
\* another task has written since, and what it writes is not observed outside
C22_TaskIsolation ==
  [][RunTask =>
       /\ Same(visitor'.tasks[Ran].result,
               _run_async_block(Ran, visitor.tasks[Ran].body,
                                [visitor EXCEPT !.env = enrolled[Ran], !.running = TRUE]).v)
       /\ SameEnv(visitor'.env, visitor.env)]_vars

\* a table without the name n
Without(table, n) == [x \in DOMAIN table \ {n} |-> table[x]]

\* the evaluator st with the name n left only in the first of the table of the
\* async routines, the table of the routines and the environment that has it
FirstOnly(n, st) ==
  IF n \in DOMAIN st.async_funcs
  THEN [st EXCEPT !.funcs = Without(@, n), !.env = Without(@, n)]
  ELSE IF n \in DOMAIN st.funcs THEN [st EXCEPT !.env = Without(@, n)]
  ELSE st

\* C23: a Call by name invokes the entry of the table of the async routines
\* when the name is there, else the entry of the table of the routines, else
\* the callable of the environment: the declaration of its result ends as it
\* does when the name is in that one place only; a name that is in none of
\* the three raises "Undefined function"
C23_CallResolution ==
  (Visited("Declaration") /\ stmt.expr.k = "Call" /\ before.ev \in Callers
     /\ stmt.name.p = "id") =>
    LET n == stmt.expr.name
        claimed == visit(stmt, FirstOnly(n, before))
    IN  /\ error = claimed.exc
        /\ error = "" =>
             PyStr(visitor.env[stmt.name.name], FALSE)
               = PyStr(claimed.st.env[stmt.name.name], FALSE)
        /\ (n \notin DOMAIN before.async_funcs \cup DOMAIN before.funcs \cup DOMAIN before.env)
             => error = "Undefined function"

\* the statements of body run one after the other from index i, up to the
\* first that raises: at is its index (0 when none raises)
RECURSIVE Each(_, _, _)
Each(body, i, st) ==
  IF i > Len(body) THEN [st |-> st, exc |-> "", at |-> 0]
  ELSE LET Rest(r) ==
             IF r.exc # "" THEN [st |-> r.st, exc |-> r.exc, at |-> i] ELSE Each(body, i + 1, r.st)
       IN  Rest(run_until_complete(visit(body[i], st)))

Tried == Each(stmt.try_body, 1, before)
Caught ==
  Each(stmt.catch_body, 1, Write(Tried.st, "[Caught Exception: " \o Tried.exc \o "]"))

\* C24: when a statement of the try_body raises, the statements after it are
\* not run and the statements of the catch_body run in order from the state
\* the raising statement left; when none raises, the catch_body does not run
C24_TryCatch ==
  Visited("TryCatch") =>
    IF Tried.at = 0
    THEN error = "" /\ visitor.out = Tried.st.out /\ SameEnv(visitor.env, Tried.st.env)
    ELSE error = Caught.exc /\ visitor.out = Caught.st.out /\ SameEnv(visitor.env, Caught.st.env)

\* a TryCatch has run whose try_body raised before its last statement and
\* whose catch_body of two statements has run to its end
C24_Witness ==
  /\ Visited("TryCatch") /\ error = ""
  /\ Tried.at > 0 /\ Tried.at < Len(stmt.try_body)
  /\ Len(stmt.catch_body) > 1 /\ Caught.at = 0

\* C25: the driver executes no token once a token has been refused as not a
\* valid hex opcode, or once the VM is halted: the token after that point is
\* not executed
C25_DriverStops ==
  [][(status = "Invalid opcode" \/ vm.halted) => steps' = steps]_vars

\* the mathematical result of the handler of op on the VM v: ADD, SUB, MUL,
\* IMUL, INC, DEC and SHL of EAX
MathResult(op, v) ==
  CASE op = 11 -> IntAdd(v.registers.EAX, v.registers.EBX)
    [] op = 12 -> IntSub(v.registers.EAX, v.registers.EBX)
    [] op \in {13, 14} -> IntMul(v.registers.EAX, v.registers.EBX)
    [] op = 17 -> IntAdd(v.registers.EAX, Py(1))
    [] op = 18 -> IntSub(v.registers.EAX, Py(1))
    [] op = 31 -> IntAdd(v.registers.EAX, v.registers.EAX)

\* C26: after ADD, SUB, MUL, IMUL, INC, DEC or SHL, CF is 1 exactly when the
\* mathematical result of the handler differs from that result truncated to
\* 32 bits
C26_CarryFlag ==
  (Called /\ ~raised /\ opcode \in {11, 12, 13, 14, 17, 18, 31}) =>
    vm.flags.CF = (IF MathResult(opcode, pre) # Mask32(MathResult(opcode, pre)) THEN 1 ELSE 0)

\* C27: DIV with a divisor that is not zero leaves the quotient in EAX and the
\* remainder in EDX: EAX * EBX + EDX is the dividend (EAX for 0x0F, EDX:EAX
\* for 0xAC) and 0 <= EDX < EBX
C27_DivQuotientRemainder ==
  (Called /\ ~raised /\ opcode \in {15, 172} /\ pre.registers.EBX # Py(0)) =>
    LET dividend == IF opcode = 15 THEN pre.registers.EAX ELSE Dividend(pre)
    IN  /\ IntAdd(IntMul(vm.registers.EAX, vm.registers.EBX), vm.registers.EDX) = dividend
        /\ ~vm.registers.EDX.neg
        /\ IntLess(vm.registers.EDX, vm.registers.EBX)

\* the word whose bit i is the i-th flag of v in declaration order
FlagWord(v) ==
  v.flags.ZF + 2 * v.flags.CF + 4 * v.flags.SF + 8 * v.flags.OF + 16 * v.flags.PF
    + 32 * v.flags.AF

\* C28: PUSHF pushes the word whose bit i is the i-th flag in the order ZF,
\* CF, SF, OF, PF, AF; POPF sets each flag to its bit of the word it pops; and
\* in every state POPF right after PUSHF gives back the six flags and ESP
C28_PushfPopf ==
  /\ (Called /\ ~raised /\ opcode = 148) =>
       /\ vm.registers.ESP = IntSub(pre.registers.ESP, Py(4))
       /\ read_mem(vm, vm.registers.ESP, 4) = Py(FlagWord(pre))
  /\ (Called /\ ~raised /\ opcode = 149) =>
       \A i \in 1..6 : vm.flags[FlagOrder[i]] = Bit(pop(pre).value, i - 1)
  /\ LET pushed == op_pushf(vm)
         popped == op_popf(pushed.vm)
     IN  ~pushed.raised =>
           /\ ~popped.raised
           /\ popped.vm.flags = vm.flags
           /\ popped.vm.registers.ESP = vm.registers.ESP

\* the bit positions of EAX that lie outside AH, up to bit 39
OutsideAH == (0..39) \ (8..15)

\* C29: SAHF sets SF, ZF, AF, PF, CF from bits 7, 6, 4, 2, 0 of AH and leaves
\* OF and every register alone; LAHF writes the five flags to the same bits of
\* AH, changes no flag and no bit of EAX outside AH; and in every state LAHF
\* followed by SAHF leaves the six flags as they were
C29_SahfLahf ==
  /\ (Called /\ ~raised /\ opcode = 150) =>
       /\ vm.flags.SF = Bit(pre.registers.EAX, 15)
       /\ vm.flags.ZF = Bit(pre.registers.EAX, 14)
       /\ vm.flags.AF = Bit(pre.registers.EAX, 12)
       /\ vm.flags.PF = Bit(pre.registers.EAX, 10)
       /\ vm.flags.CF = Bit(pre.registers.EAX, 8)
       /\ vm.flags.OF = pre.flags.OF
       /\ vm.registers = pre.registers
  /\ (Called /\ ~raised /\ opcode = 151) =>
       /\ Bit(vm.registers.EAX, 15) = pre.flags.SF
       /\ Bit(vm.registers.EAX, 14) = pre.flags.ZF
       /\ Bit(vm.registers.EAX, 12) = pre.flags.AF
       /\ Bit(vm.registers.EAX, 10) = pre.flags.PF
       /\ Bit(vm.registers.EAX, 8) = pre.flags.CF
       /\ vm.flags = pre.flags
       /\ \A i \in OutsideAH : Bit(vm.registers.EAX, i) = Bit(pre.registers.EAX, i)
       /\ \A r \in DOMAIN pre.registers \ {"EAX"} : vm.registers[r] = pre.registers[r]
  /\ op_sahf(op_lahf(vm).vm).vm.flags = vm.flags

\* the branch of the LOOP instruction op is taken from v, whose ECX is ecx
\* after the decrement
LoopTaken(op, v, ecx) ==
  /\ ecx # Py(0)
  /\ op = 74 => v.flags.ZF = 1
  /\ op = 75 => v.flags.ZF = 0

\* C30: LOOP, LOOPE and LOOPNE decrement ECX by one; EIP advances by 1 exactly
\* when the decremented ECX is non-zero and, for LOOPE, ZF = 1 or, for LOOPNE,
\* ZF = 0, and is unchanged otherwise; the flags and the other registers are
\* not modified
C30_LoopFamily ==
  (Called /\ ~raised /\ opcode \in {73, 74, 75}) =>
    LET ecx == IntSub(pre.registers.ECX, Py(1))
    IN  /\ vm.registers.ECX = ecx
        /\ vm.registers.EIP = IF LoopTaken(opcode, pre, ecx)
                                THEN IntAdd(pre.registers.EIP, Py(1))
                                ELSE pre.registers.EIP
        /\ vm.flags = pre.flags
        /\ \A r \in DOMAIN pre.registers \ {"ECX", "EIP"} :
             vm.registers[r] = pre.registers[r]

\* a LOOPE that left ECX non-zero and was not taken because ZF was 0
C30_Witness ==
  /\ Called /\ ~raised /\ opcode = 74
  /\ pre.registers.ECX = Py(2) /\ pre.flags.ZF = 0
  /\ vm.registers.ECX = Py(1)
  /\ vm.registers.EIP = pre.registers.EIP

\* the versions whose _bind_values knows the slots of a pattern
SlotBinders == Evaluators \ {"eval_visitor", "join", "nested"}

\* the index of the first RestSlot among the items of a list pattern (0: none)
RestIndex(pattern) ==
  IF pattern.p = "list" /\ \E k \in 1..Len(pattern.items) : pattern.items[k].p = "rest"
  THEN CHOOSE k \in 1..Len(pattern.items) :
         /\ pattern.items[k].p = "rest"
         /\ \A j \in 1..(k - 1) : pattern.items[j].p # "rest"
  ELSE 0

\* env binds the rest name of pattern to the values from its index on, and
\* the names of the later positions are as they are in old
RestBound(pattern, value, env, old) ==
  LET k == RestIndex(pattern)
      later == UNION {PatternNames(pattern.items[j]) : j \in (k + 1)..Len(pattern.items)}
                 \ UNION {PatternNames(pattern.items[j]) : j \in 1..k}
  IN  /\ pattern.items[k].name \in DOMAIN env
      /\ Same(env[pattern.items[k].name], List(SubSeq(value.v, k, Len(value.v))))
      /\ \A n \in later :
           /\ n \in DOMAIN env <=> n \in DOMAIN old
           /\ n \in DOMAIN old => Same(env[n], old[n])

\* C31: binding or matching a list pattern whose item k is a RestSlot binds
\* the rest name to the list of the values from index k to the end, which may
\* be empty, and does not consult the later positions; both in a Declaration
\* and in the pattern of a Match case
C31_RestSlot ==
  /\ (/\ Visited("Declaration") /\ stmt.expr.k = "Literal" /\ before.ev \in SlotBinders
      /\ RestIndex(stmt.name) > 0 /\ stmt.expr.value.t = "list"
      /\ Len(stmt.expr.value.v) >= RestIndex(stmt.name) - 1) =>
       /\ error = ""
       /\ RestBound(stmt.name, stmt.expr.value, visitor.env, before.env)
  /\ (/\ Visited("Match") /\ MatchValue.exc = "" /\ MatchValue.v.t = "list"
      /\ RestIndex(stmt.cases[1].pattern) > 0
      /\ Len(MatchValue.v.v) >= RestIndex(stmt.cases[1].pattern) - 1) =>
       LET m == _match_pattern(stmt.cases[1].pattern, MatchValue.v, MatchValue.st)
       IN  /\ m.exc = "" /\ m.ok
           /\ RestBound(stmt.cases[1].pattern, MatchValue.v, m.st.env, before.env)

\* the positions of a list pattern that the value does not reach
Missing(pattern, value) == (Len(value.v) + 1)..Len(pattern.items)
HasDefault(item) == item.p \in {"slot", "alias"} /\ item.default # NoNode

\* a list pattern without a RestSlot that is longer than the list value
Longer(pattern, value) ==
  /\ pattern.p = "list" /\ RestIndex(pattern) = 0
  /\ value.t = "list" /\ Len(pattern.items) > Len(value.v)

\* env binds the name of every missing position to the value of its default
DefaultsBound(pattern, value, env, st) ==
  \A j \in Missing(pattern, value) :
    /\ pattern.items[j].name \in DOMAIN env
    /\ Same(env[pattern.items[j].name], visit(pattern.items[j].default, st).v)

\* C32: when a list pattern is longer than the value, the binding succeeds
\* and binds every missing position to its default if each has one; if some
\* missing position has no default a Declaration or Assignment raises an
\* error and a Match case is skipped
C32_ShortValue ==
  /\ (/\ (Visited("Declaration") \/ Visited("Assignment")) /\ stmt.expr.k = "Literal"
      /\ before.ev \in SlotBinders /\ Longer(stmt.name, stmt.expr.value)) =>
       IF \A j \in Missing(stmt.name, stmt.expr.value) : HasDefault(stmt.name.items[j])
       THEN error = "" /\ DefaultsBound(stmt.name, stmt.expr.value, visitor.env, before)
       ELSE error # ""
  /\ (Visited("Match") /\ MatchValue.exc = "") =>
       \A i \in 1..Len(stmt.cases) :
         Longer(stmt.cases[i].pattern, MatchValue.v) =>
           LET pattern == stmt.cases[i].pattern
               m == _match_pattern(pattern, MatchValue.v, MatchValue.st)
           IN  IF \A j \in Missing(pattern, MatchValue.v) : HasDefault(pattern.items[j])
               THEN m.exc = "" /\ m.ok
                    /\ DefaultsBound(pattern, MatchValue.v, m.st.env, MatchValue.st)
               ELSE m.exc = "" /\ ~m.ok

\* the slots of an object pattern whose key the dict value does not have
Absent(pattern, value) ==
  {i \in 1..Len(pattern.slots) : ~HasKey(value, pattern.slots[i].key)}

\* an object pattern, of slots that bind plain names, against a dict that
\* lacks the key of one of them
KeyAbsent(pattern, value) ==
  /\ pattern.p = "object" /\ value.t = "dict"
  /\ \A i \in 1..Len(pattern.slots) : pattern.slots[i].name.p = "id"
  /\ Absent(pattern, value) # {}

\* env binds the name of every slot whose key is absent to its default
AbsentBound(pattern, value, env, st) ==
  \A i \in Absent(pattern, value) :
    /\ pattern.slots[i].name.name \in DOMAIN env
    /\ Same(env[pattern.slots[i].name.name], visit(pattern.slots[i].default, st).v)

\* C33: when the key of a slot of an object pattern is absent from the value,
\* a slot with a default binds the value of the default; a slot without a
\* default makes the binding fail: a Match case is skipped, a Declaration or
\* Assignment raises an error and does not bind None
C33_AbsentKey ==
  /\ (/\ (Visited("Declaration") \/ Visited("Assignment")) /\ stmt.expr.k = "Literal"
      /\ before.ev \in SlotBinders /\ KeyAbsent(stmt.name, stmt.expr.value)) =>
       IF \A i \in Absent(stmt.name, stmt.expr.value) : stmt.name.slots[i].default # NoNode
       THEN error = "" /\ AbsentBound(stmt.name, stmt.expr.value, visitor.env, before)
       ELSE error # ""
  /\ (Visited("Match") /\ MatchValue.exc = "") =>
       \A i \in 1..Len(stmt.cases) :
         KeyAbsent(stmt.cases[i].pattern, MatchValue.v) =>
           LET pattern == stmt.cases[i].pattern
               m == _match_pattern(pattern, MatchValue.v, MatchValue.st)
           IN  IF \A j \in Absent(pattern, MatchValue.v) : pattern.slots[j].default # NoNode
               THEN m.exc = "" /\ m.ok
                    /\ AbsentBound(pattern, MatchValue.v, m.st.env, MatchValue.st)
               ELSE m.exc = "" /\ ~m.ok

\* the versions whose visit_Match reads the guard of a case
GuardReaders == {"match_guards", "match_recursive"}

\* case i of the Match run last, taken on its own: its pattern against the
\* value in the environment before the Match, and its guard in the
\* environment the pattern has extended
PatternOf(i) == _match_pattern(stmt.cases[i].pattern, MatchValue.v, MatchValue.st)
GuardOf(i) == run_until_complete(visit(stmt.cases[i].guard, PatternOf(i).st))
Fires(i) ==
  /\ PatternOf(i).exc = "" /\ PatternOf(i).ok
  /\ stmt.cases[i].guard # NoNode => (GuardOf(i).exc = "" /\ truthy(GuardOf(i).v))

\* the first case, in source order, whose pattern matches and whose guard is
\* truthy (0 when there is none)
FirstFiring ==
  IF \E i \in 1..Len(stmt.cases) : Fires(i)
  THEN CHOOSE i \in 1..Len(stmt.cases) : Fires(i) /\ \A j \in 1..(i - 1) : ~Fires(j)
  ELSE 0

\* what the body of case i prints when it starts in the environment its own
\* pattern has extended
BodyOut(i) ==
  Block(stmt.cases[i].body,
        IF stmt.cases[i].guard = NoNode THEN PatternOf(i).st ELSE GuardOf(i).st).st.out

\* C34: a Match runs the body of at most one case, the first in source order
\* whose pattern matches and whose guard, evaluated after the pattern in the
\* environment the pattern has extended, is truthy; no later case runs
C34_FirstCaseFires ==
  (/\ Visited("Match") /\ MatchValue.exc = "" /\ error = ""
   /\ (before.ev \in GuardReaders \/ \A i \in 1..Len(stmt.cases) : stmt.cases[i].guard = NoNode)) =>
    /\ Selected.exc = "" /\ Selected.fired = FirstFiring
    /\ visitor.out = IF FirstFiring = 0 THEN before.out ELSE BodyOut(FirstFiring)

\* C35: when no case of a Match fires, because every pattern fails or every
\* guard is falsy, the Match is a no-op: no body runs and the environment
\* after it equals the environment before it
C35_MatchNoOp ==
  (/\ Visited("Match") /\ MatchValue.exc = "" /\ error = ""
   /\ (before.ev \in GuardReaders \/ \A i \in 1..Len(stmt.cases) : stmt.cases[i].guard = NoNode)
   /\ FirstFiring = 0) =>
    /\ visitor.out = before.out
    /\ SameEnv(visitor.env, before.env)

\* the statement run last declared a name as the result of a call of a routine
\* or lambda that has one definition, which the call has found, and the call
\* has returned a value
CallSite ==
  /\ Visited("Declaration") /\ stmt.name.p = "id" /\ stmt.expr.k = "Call"
  /\ error = ""
  /\ stmt.expr.name \in DOMAIN defined /\ ~defined[stmt.expr.name].again
  /\ "body" \in DOMAIN resolve(stmt.expr.name, before).fn
  /\ ~(before.ev = "async_fn_params" /\ stmt.expr.name \in DOMAIN before.async_funcs)

\* the result of the call when the free names of the body are read in the
\* environment of the definition site: the arguments are evaluated at the call
\* site and the parameters bound over the captured environment
Captured ==
  LET d == defined[stmt.expr.name]
      a == EvalArgs(stmt.expr.args, 1, <<>>, before)
  IN  fn(d.params, d.body, a.v, [a.st EXCEPT !.env = d.env]).v

\* C36: a routine or an async lambda called after the enclosing environment
\* has changed reads its free names in the environment of its definition
\* site, not in that of the call site
C36_ClosureCapture ==
  CallSite => Same(visitor.env[stmt.name.name], Captured)

\* the index of the first Return among the statements of a body (0: none)
FirstReturn(body) ==
  IF \E k \in 1..Len(body) : body[k].k = "Return"
  THEN CHOOSE k \in 1..Len(body) :
         body[k].k = "Return" /\ \A j \in 1..(k - 1) : body[j].k # "Return"
  ELSE 0

\* the event loop has just run a task whose body has a Return: the result of
\* the task is the value of the expression of the first Return, evaluated
\* after the statements before it, and nothing after it has been printed
TaskReturns ==
  finished' # finished =>
    LET name == finished'[Len(finished')]
        body == visitor.tasks[name].body
        k == FirstReturn(body)
        start == Write([visitor EXCEPT !.running = TRUE], "[Async " \o name \o " Start]")
        upto == Block(SubSeq(body, 1, k - 1), start)
        value == visit(body[k].expr, upto.st)
    IN  (k > 0 /\ upto.exc = "" /\ value.exc = "") =>
          /\ visitor'.tasks[name].done
          /\ Same(visitor'.tasks[name].result, value.v)
          /\ visitor'.out = Append(value.st.out, "[Async " \o name \o " End]")

\* the body of the task name is the Return of the literal n
ReturnsLiteral(name, n) ==
  /\ name \in DOMAIN before.tasks
  /\ Len(before.tasks[name].body) = 1
  /\ before.tasks[name].body[1].k = "Return"
  /\ before.tasks[name].body[1].expr.k = "Literal"
  /\ before.tasks[name].body[1].expr.value.t = "int"
  /\ before.tasks[name].body[1].expr.value.v = n

\* the Declaration of scenario S3: [x, y] = Await(["A", "B"]), A and B the
\* tasks that return 1 and 2
ScenarioS3 ==
  /\ Awaited /\ FlatRegistered /\ Len(stmt.expr.name.items) = 2
  /\ stmt.expr.name.items[1].name = "A" /\ stmt.expr.name.items[2].name = "B"
  /\ ReturnsLiteral("A", 1) /\ ReturnsLiteral("B", 2)
  /\ stmt.name.p = "list" /\ Len(stmt.name.items) = 2
  /\ stmt.name.items[1].p = "id" /\ stmt.name.items[1].name = "x"
  /\ stmt.name.items[2].p = "id" /\ stmt.name.items[2].name = "y"

\* what Print(x + y) would print now
PrintsSum ==
  LET r == visit(PrintOf(BinaryOp(Identifier("x"), "+", Identifier("y"))), visitor)
  IN  IF r.exc # "" THEN "" ELSE r.st.out[Len(r.st.out)]

CaughtCall ==
  /\ Visited("TryCatch") /\ error = ""
  /\ Len(stmt.try_body) = 1 /\ stmt.try_body[1].k = "Call"
  /\ \A i \in 1..Len(stmt.catch_body) : stmt.catch_body[i].k = "Print"
  /\ Block(stmt.try_body, before).exc
       \notin {"", "Undefined function", "No visit_Call defined"}

\* C38: when the body or the parameter binding of a routine raises an error
\* that an enclosing TryCatch catches, the environment the catch_body and the
\* later statements see is the one of the caller before the call: no
\* parameter and no local of the failed call is left behind
C38_CallExitRestores ==
  CaughtCall =>
    /\ SameEnv(Block(stmt.try_body, before).st.env, before.env)
    /\ SameEnv(visitor.env, before.env)

\* C39: the memory of the VM keeps its configured size: after any sequence of
\* execute calls, pushes with ESP below 4 and writes at or beyond the end of
\* the memory included, the memory has exactly memory_size bytes
C39_MemorySize == Len(vm.memory) = MemSize
====
